---- MODULE Spec2Model ----
(***************************************************************************)
(* Model of the connectedk8s onboarding orchestration                      *)
(* (src/src/connectedk8s/azext_connectedk8s/custom.py).                    *)
(*                                                                         *)
(* Three specifications share this module:                                 *)
(*   Spec      - create_connectedk8s / delete_connectedk8s run one         *)
(*               invocation at a time against the world they act on (helm  *)
(*               release, azure-clusterconfig config-map, control-plane    *)
(*               resources, resource groups).  Every external call is one  *)
(*               step and may fail.                                        *)
(*   SpecAAD   - get_aad_profile applied to every input of a bounded set.  *)
(*   SpecMerge - merge_kubernetes_configurations against a kubeconfig file.*)
(***************************************************************************)
EXTENDS Integers, Sequences, FiniteSets, TLC

\* Python's None for string-valued parameters and locals.
None == "None"

\* Python truthiness of an optional string: None and "" are falsy.
Truthy(s) == s # None /\ s # ""

(***************************************************************************)
(* Bounds                                                                  *)
(***************************************************************************)
\* number of key pairs RSA.generate can hand out in one behaviour
MaxKeys == 2

(***************************************************************************)
(* Strings the code inspects character by character are sequences of       *)
(* one-character strings.                                                  *)
(***************************************************************************)
\* Python `p in s` / s.find(p) != -1
Contains(s, p) ==
    \E i \in 0..(Len(s) - Len(p)) : SubSeq(s, i + 1, i + Len(p)) = p

HelmV3 == <<"v","3",".","5",".","2">>
HelmV2 == <<"v","2",".","1","7",".","0">>
HelmRC == <<"v","3",".","3",".","0","-","r","c",".","1">>
HelmVersions == {HelmV3, HelmV2, HelmRC}

\* ".k8sconnect.azure."
ProxyMarker ==
    <<".","k","8","s","c","o","n","n","e","c","t",".","a","z","u","r","e",".">>
\* "h.k8sconnect.azure.c" : a cluster-connect (proxy) server address
ServerProxy == <<"h">> \o ProxyMarker \o <<"c">>
\* "h.k8sconnect.azure" : the marker without its last dot
ServerNearProxy == <<"h">> \o SubSeq(ProxyMarker, 1, Len(ProxyMarker) - 1)
\* "h.azmk8s.io:443" : a direct server address
ServerDirect == <<"h",".","a","z","m","k","8","s",".","i","o",":","4","4","3">>
Servers == {ServerProxy, ServerNearProxy, ServerDirect}

(***************************************************************************)
(* Identities                                                              *)
(***************************************************************************)
RGs == {"rg1", "RG1", "rg2"}
Names == {"c1", "C1"}
Locations == {"eastus", "westus"}

\* str.lower() on the identity alphabet
lower(s) == CASE s = "RG1" -> "rg1"
              [] s = "C1"  -> "c1"
              [] OTHER     -> s

\* The control plane addresses a resource case-insensitively.
Key(rg, name) == <<lower(rg), lower(name)>>
Keys == {Key(rg, n) : rg \in RGs, n \in Names}
RGKeys == {lower(rg) : rg \in RGs}

VARIABLES
    \* ---- the world create/delete act on
    release,      \* namespace of the helm release 'azure-arc', or None
    configmap,    \* azure-clusterconfig: [present, rg, name]
    remote,       \* control plane: Key -> [present, cert]
    rgs,          \* existing resource groups (lower-cased names)
    nextKey,      \* number of key pairs generated so far
    \* ---- the running invocation
    pc,           \* position in the handler; "idle" or "done" between calls
    op,           \* "create" | "delete" | None
    args,         \* the invocation's parameters
    lv,           \* the handler's local variables
    calls,        \* external calls issued by this invocation, in order
    result,       \* None while running; "ok" or the error raised
    prev,         \* identity of the create that has just succeeded, if any
    \* ---- get_aad_profile applied to bounded inputs (SpecAAD)
    aadIn, aadOut,
    \* ---- a pure function applied to bounded inputs (SpecEscape, SpecDistro)
    fnIn, fnOut,
    \* ---- delete_arc_agents step by step (SpecPoll)
    now,          \* the clock, in seconds
    nsPresent,    \* the namespace azure-arc is still listed
    poll,         \* position and locals of delete_arc_agents
    \* ---- two merges into one kubeconfig file (SpecConc)
    cm,           \* per process: position, locals and result
    order,        \* the processes' loads and writes of the file, in order
    \* ---- kubeconfig merge (SpecMerge)
    kfile,        \* the kubeconfig file, as the document it parses to
    mpc,          \* position in merge_kubernetes_configurations
    margs,        \* addition, replace, context_name and the terminal's answer
    mres,         \* "none" while running; "ok" or the error raised
    mlv,          \* locals: existing, addition, and the number of the merge
    kstart        \* the file as it was when the running merge started

worldVars == <<release, configmap, remote, rgs, nextKey>>
invVars   == <<pc, op, args, lv, calls, result, prev>>
fnVars    == <<fnIn, fnOut>>
pollVars  == <<now, nsPresent, poll>>
concVars  == <<cm, order>>
aadVars   == <<aadIn, aadOut, fnVars, pollVars, concVars>>
mergeVars == <<kfile, mpc, margs, mres, mlv, kstart>>
vars      == <<worldVars, invVars, aadVars, mergeVars>>

(***************************************************************************)
(* Pure helpers of custom.py                                               *)
(***************************************************************************)
EmptyAad == [server |-> "", client |-> "", tenant |-> ""]
NoAad    == [isNone |-> TRUE,  server |-> "", client |-> "", tenant |-> ""]
SomeAad(p) == [isNone |-> FALSE, server |-> p.server, client |-> p.client,
               tenant |-> p.tenant]

\* custom.py:733 - the test names the client app id twice and never the
\* server app id.
AllFieldsFilled(server, client, tenant) ==
    client # "" /\ client # "" /\ tenant # ""

\* custom.py:723-731: a command-line value that is given and non-empty
\* replaces the retrieved one, field by field.
OverrideRetrieved(r, s, c, t) ==
    [server |-> IF Truthy(s) THEN s ELSE r.server,
     client |-> IF Truthy(c) THEN c ELSE r.client,
     tenant |-> IF Truthy(t) THEN t ELSE r.tenant]

\* custom.py:723-751.  r is the triple get_user_aad_details retrieved from the
\* kubeconfig; s, c, t are the command-line values (None when not given).
get_aad_profile(r, s, c, t) ==
    LET o == OverrideRetrieved(r, s, c, t)
        server == o.server
        client == o.client
        tenant == o.tenant
    IN  IF AllFieldsFilled(server, client, tenant)
        THEN [raised |-> FALSE, server |-> server, client |-> client,
              tenant |-> tenant, aad_enabled |-> TRUE]
        ELSE IF client = "" /\ server = ""
        THEN [raised |-> FALSE, server |-> server, client |-> client,
              tenant |-> "", aad_enabled |-> FALSE]
        ELSE [raised |-> TRUE, server |-> server, client |-> client,
              tenant |-> tenant, aad_enabled |-> FALSE]

\* custom.py:553-575.  The payload of the PUT (tags, distribution and
\* infrastructure are carried through unchanged and left out).
generate_request_payload(location, public_key, aad_profile) ==
    [location |-> location,
     cert     |-> public_key,
     aad      |-> IF aad_profile.isNone THEN EmptyAad
                  ELSE [server |-> aad_profile.server,
                        client |-> aad_profile.client,
                        tenant |-> aad_profile.tenant]]

\* Mutant of IdentityMatches: the names are compared as written.
IdentityMatchesCaseSensitive(cm_rg, cm_name, rg, name) ==
    cm_rg = rg /\ cm_name = name

\* Mutant of IdentityMatches: only the cluster name is compared.
IdentityMatchesNameOnly(cm_rg, cm_name, rg, name) ==
    lower(cm_name) = lower(name)

\* custom.py:209-210 and 849-850.
IdentityMatches(cm_rg, cm_name, rg, name) ==
    lower(cm_rg) = lower(rg) /\ lower(cm_name) = lower(name)

\* custom.py:591-619.  cfg is the kubeconfig: its current context, the cluster
\* each context names and the server of each cluster.  "Unbound" stands for
\* the exception raised when kube_context names no context (cluster_name is
\* then read before assignment).
get_server_address(cfg, kube_context) ==
    LET cluster_name ==
            IF kube_context = None THEN cfg.clusterOf[cfg.current]
            ELSE IF kube_context \in DOMAIN cfg.clusterOf
                 THEN cfg.clusterOf[kube_context]
                 ELSE "Unbound"
    IN  IF cluster_name = "Unbound" THEN <<"Unbound">>
        ELSE IF cluster_name \in DOMAIN cfg.server
             THEN cfg.server[cluster_name]
             ELSE <<>>

\* Mutant of check_proxy_kubeconfig: no address is taken for a proxy address.
check_proxy_kubeconfig_never(server_address) == FALSE

\* custom.py:622-627
check_proxy_kubeconfig(server_address) ==
    Contains(server_address, ProxyMarker)

\* The kubeconfigs delete_connectedk8s may be pointed at.
KubeConfigs ==
    [current   : {"ctxA", "ctxB"},
     clusterOf : {[ctxA |-> "clA", ctxB |-> "clB"]},
     server    : [{"clA", "clB"} -> Servers]]
KubeContexts == {None, "ctxA", "ctxB", "ctxMissing"}

(***************************************************************************)
(* The world and the invocation                                            *)
(***************************************************************************)
\* Of a stored resource the handlers read back its presence and its agent
\* public key certificate.
Absent == [present |-> FALSE, cert |-> -1]
Resource(cc) == [present |-> TRUE, cert |-> cc.cert]
NoConfigMap == [present |-> FALSE, rg |-> "", name |-> ""]
ConfigMap(rg, name) == [present |-> TRUE, rg |-> rg, name |-> name]

DefaultArgs ==
    [rg |-> "", name |-> "", location |-> "", no_wait |-> FALSE,
     aad_server_app_id |-> None, aad_client_app_id |-> None,
     kube_context |-> None,
     https_proxy |-> <<>>, http_proxy |-> <<>>, no_proxy |-> <<>>,
     proxy_cert |-> <<>>, disable_proxy |-> FALSE]

NoCc == [location |-> "", cert |-> -1, aad |-> EmptyAad]
\* What a PUT answers: the resource as the control plane now holds it.
Response(rg, name, cc) == [rg |-> rg, name |-> name, cc |-> cc]
NoResponse == Response("", "", NoCc)

DefaultLv ==
    [aad_tenant_id          |-> "",
     aad_profile            |-> NoAad,
     is_aad_enabled         |-> FALSE,
     helm_version           |-> <<>>,
     server_address         |-> <<>>,
     release_namespace      |-> "unset",
     configmap_rg_name      |-> "",
     configmap_cluster_name |-> "",
     recorded_exists        |-> "unset",   \* connected_cluster_exists, line 208
     requested_exists       |-> "unset",   \* connected_cluster_exists, line 230
     rg_lookup              |-> "unset",   \* how groups.get ended, line 449
     rg_exists              |-> "unset",   \* resource_group_exists, line 240
     fetched_key            |-> -1,        \* certificate read at line 213
     public_key             |-> -1,
     private_key_pem        |-> -1,
     put_cc_response        |-> NoResponse,
     returned               |-> NoResponse,
     https_proxy            |-> <<>>,      \* the escaped settings
     http_proxy             |-> <<>>,
     no_proxy               |-> <<>>,
     proxy_cert             |-> <<>>,
     cmd_helm_upgrade       |-> <<>>]

NoPrev == [rg |-> "", name |-> ""]

\* Records of the external calls an invocation issues.
Call(kind, rg, name, cc, key, wait, ok) ==
    [kind |-> kind, rg |-> rg, name |-> name, cc |-> cc, key |-> key,
     wait |-> wait, ok |-> ok]

HasCall(kind) == \E i \in 1..Len(calls) : calls[i].kind = kind
CallsOf(kind) == {i \in 1..Len(calls) : calls[i].kind = kind}

\* The worlds an invocation may find: a release (with or without its
\* config-map), control-plane resources registered earlier (certificate 0),
\* resource groups.
InitWorlds ==
    /\ release \in {None, "azure-arc"}
    /\ configmap \in
           IF release = None THEN {NoConfigMap}
           ELSE {NoConfigMap} \cup {ConfigMap(rg, n) : rg \in RGs, n \in Names}
    /\ remote \in [Keys -> {Absent, [present |-> TRUE, cert |-> 0]}]
    /\ rgs \in SUBSET RGKeys
    /\ \A k \in Keys : remote[k].present => k[1] \in rgs
    /\ nextKey = 0

IdleInvocation ==
    /\ pc = "idle"
    /\ op = None
    /\ args = DefaultArgs
    /\ lv = DefaultLv
    /\ calls = <<>>
    /\ result = None
    /\ prev = NoPrev

IdleAAD == aadIn = <<>> /\ aadOut = <<>>
IdlePoll == now = 0 /\ nsPresent = FALSE /\ poll = <<>>
IdleConc == cm = <<>> /\ order = <<>>
IdleFn == fnIn = <<>> /\ fnOut = <<>> /\ IdlePoll /\ IdleConc
IdleMerge ==
    /\ kfile = <<>> /\ mpc = "off" /\ margs = <<>> /\ mres = "none"
    /\ mlv = <<>> /\ kstart = <<>>

Init == InitWorlds /\ IdleInvocation /\ IdleAAD /\ IdleFn /\ IdleMerge

\* raise CLIError: the handler ends with the error `tag`.
\* Mutant of Raise: the failed step is tried again.
RaiseAndRetry(tag) == pc' = pc /\ result' = result
Raise(tag) == pc' = "done" /\ result' = tag

\* An invocation starts in a world drawn by Init, or in the world a
\* successful create has just left.
CanStart == pc = "idle" \/ (pc = "done" /\ op = "create" /\ result = "ok")

\* The identity just created, for the invocation that follows it.
Summary == IF pc = "done" THEN [rg |-> args.rg, name |-> args.name]
           ELSE NoPrev

(***************************************************************************)
(* External collaborators                                                  *)
(***************************************************************************)
\* No certificate, no key.
NoKey == Absent.cert
\* Mutant of get_public_key: the private half is exported.
get_public_key_private_half(k) == 2 * k + 1
\* Mutant of get_private_key: the private half of the pair before.
get_private_key_of_previous(k) == 2 * (k - 1) + 1
\* custom.py:470-474 and 477-479: the two halves of key pair k.
get_public_key(k) == 2 * k
get_private_key(k) == 2 * k + 1
IsPublicKey(x)  == x >= 0 /\ x % 2 = 0
IsPrivateKey(x) == x >= 0 /\ x % 2 = 1
PairOf(x) == x \div 2

\* How client.get(rg, name) can end: with the resource, with 'not found', or
\* with any other failure.
GetOutcomes(rg, name) ==
    {IF remote[Key(rg, name)].present THEN "ok" ELSE "notfound", "error"}

\* utils.arm_exception_handler: re-raises every failure, except that 'not
\* found' is swallowed when return_if_not_found is set.
arm_exception_handler(failure, return_if_not_found) ==
    IF failure = "notfound" /\ return_if_not_found THEN "return" ELSE "raise"

\* Mutant of connected_cluster_exists: every failure of the get reads as
\* "does not exist".
connected_cluster_exists_any_failure(got) ==
    IF got = "ok" THEN "true" ELSE "false"

\* Mutant of connected_cluster_exists: the final `return True` is missing.
connected_cluster_exists_no_return(got) ==
    IF got = "ok" THEN "false"
    ELSE IF arm_exception_handler(got, TRUE) = "return" THEN "false"
    ELSE "raise"

\* Mutant of connected_cluster_exists: 'not found' reads as "exists".
connected_cluster_exists_not_found_is_true(got) ==
    IF got = "error" THEN "raise" ELSE "true"

\* custom.py:455-461, on the outcome of its client.get
connected_cluster_exists(got) ==
    IF got = "ok" THEN "true"
    ELSE IF arm_exception_handler(got, TRUE) = "return" THEN "false"
    ELSE "raise"

\* How groups.get(resource_group_name) can end.
GroupGetOutcomes(rg) ==
    {IF lower(rg) \in rgs THEN "ok" ELSE "notfound", "error"}

\* custom.py:446-452: every failure of the get reads as "does not exist".
resource_group_exists(got) == got = "ok"

\* Mutant of check_helm_version: only the major version 2 is rejected.
check_helm_version_v2_only(output) ==
    IF Contains(output, <<"v","2">>) THEN "HelmV2" ELSE "ok"

\* custom.py:424-443 and 186-189: the version gate on the output of
\* `helm version --short --client`.
check_helm_version(output) ==
    IF Contains(output, <<"v","2">>) THEN "HelmV2"
    ELSE IF Contains(output, <<"3",".","3",".","0","-","r","c">>)
         THEN "HelmPreRelease"
         ELSE "ok"

\* Mutant of helm_install_cmd: --wait is always passed.
helm_install_cmd_always_wait(no_wait, private_key_pem) ==
    [wait |-> TRUE, key |-> private_key_pem]

\* custom.py:894-926: what of the helm command the claims are about:
\* global.onboardingPrivateKey and the --wait flag.
helm_install_cmd(no_wait, private_key_pem) ==
    [wait |-> ~no_wait, key |-> private_key_pem]

Log(c) == calls' = Append(calls, c)

stepFrame == <<op, args, prev, aadVars, mergeVars>>

(***************************************************************************)
(* create_connectedk8s, custom.py:48-295                                   *)
(***************************************************************************)
AadArgs == {None, "", "app1"}
RetrievedAad == {EmptyAad, [server |-> "ks", client |-> "kc", tenant |-> "kt"]}

StartCreate ==
    /\ CanStart
    /\ nextKey < MaxKeys
    /\ \E rg \in RGs, n \in Names, loc \in Locations, nw \in BOOLEAN,
          s \in AadArgs, c \in AadArgs :
          args' = [DefaultArgs EXCEPT !.rg = rg, !.name = n,
                       !.location = loc, !.no_wait = nw,
                       !.aad_server_app_id = s, !.aad_client_app_id = c]
    /\ op' = "create"
    /\ pc' = "c_start"
    /\ lv' = DefaultLv
    /\ calls' = <<>>
    /\ result' = None
    /\ prev' = Summary
    /\ UNCHANGED <<worldVars, aadVars, mergeVars>>

\* Mutant of IncompleteAadArgs: nothing is rejected.
IncompleteAadArgsNever(s, c) == FALSE

\* custom.py:69
IncompleteAadArgs(s, c) ==
    (s = None /\ c # None) \/ (s # None /\ c = None)

\* custom.py:53-73: tenant id, then the both-or-neither test of the AAD ids.
CreateCheckAadArgs ==
    /\ pc = "c_start"
    /\ IF IncompleteAadArgs(args.aad_server_app_id, args.aad_client_app_id)
       THEN Raise("IncompleteAAD") /\ UNCHANGED lv
       ELSE /\ pc' = "c_graph"
            /\ lv' = [lv EXCEPT !.aad_tenant_id = "t1"]
            /\ UNCHANGED result
    /\ UNCHANGED <<worldVars, calls, stepFrame>>

\* custom.py:75-93: the server app id is looked up in the directory (a failure
\* is an error); a failing lookup of the client app id is only logged.
CreateValidateApps ==
    /\ pc = "c_graph"
    /\ \/ Truthy(args.aad_server_app_id) /\ Raise("InvalidAADServerApp")
       \/ pc' = "c_env" /\ UNCHANGED result
    /\ UNCHANGED <<worldVars, lv, calls, stepFrame>>

\* custom.py:94-160: proxy certificate path, helm values file, kubeconfig
\* load, connectivity check; distribution and infrastructure never raise.
CreateLoadEnv ==
    /\ pc = "c_env"
    /\ \/ Raise("KubeconfigFault")
       \/ pc' = "c_aad" /\ UNCHANGED result
    /\ UNCHANGED <<worldVars, lv, calls, stepFrame>>

\* custom.py:162-164 with get_aad_profile, 673-751.
CreateGetAadProfile ==
    /\ pc = "c_aad"
    /\ \/ Raise("AADLookupFault") /\ UNCHANGED lv
       \/ \E r \in RetrievedAad :
            LET p == get_aad_profile(r, args.aad_server_app_id,
                                     args.aad_client_app_id, lv.aad_tenant_id)
            IN  IF p.raised
                THEN Raise("InvalidAADProfile") /\ UNCHANGED lv
                ELSE /\ lv' = [lv EXCEPT !.aad_profile = SomeAad(p),
                                         !.is_aad_enabled = p.aad_enabled]
                     /\ pc' = "c_helm"
                     /\ UNCHANGED result
    /\ UNCHANGED <<worldVars, calls, stepFrame>>

\* custom.py:174-193: helm must be installed, its client version must pass
\* the gate, the location must be valid.
CreateCheckHelm ==
    /\ pc = "c_helm"
    /\ \/ Raise("HelmFault") /\ UNCHANGED lv
       \/ \E out \in HelmVersions :
            /\ lv' = [lv EXCEPT !.helm_version = out]
            /\ IF check_helm_version(out) # "ok"
               THEN Raise(check_helm_version(out))
               ELSE pc' = "c_release" /\ UNCHANGED result
    /\ UNCHANGED <<worldVars, calls, stepFrame>>

\* custom.py:195-197 with get_release_namespace, 865-887.
CreateGetRelease ==
    /\ pc = "c_release"
    /\ \/ Raise("HelmListFault") /\ UNCHANGED lv
       \/ /\ lv' = [lv EXCEPT !.release_namespace = release]
          /\ pc' = IF Truthy(release) THEN "c_cm" ELSE "c_exists"
          /\ UNCHANGED result
    /\ UNCHANGED <<worldVars, calls, stepFrame>>

\* custom.py:198-207: the config-map must be readable.
CreateReadConfigMap ==
    /\ pc = "c_cm"
    /\ \/ Raise("ConfigMapFault") /\ UNCHANGED lv
       \/ /\ configmap.present
          /\ lv' = [lv EXCEPT !.configmap_rg_name = configmap.rg,
                              !.configmap_cluster_name = configmap.name]
          /\ pc' = "c_recorded"
          /\ UNCHANGED result
    /\ UNCHANGED <<worldVars, calls, stepFrame>>

\* custom.py:208-226: does the resource the config-map records still exist,
\* and is it the requested one.
CreateCheckRecorded ==
    /\ pc = "c_recorded"
    /\ \E got \in GetOutcomes(lv.configmap_rg_name, lv.configmap_cluster_name) :
         LET e == connected_cluster_exists(got) IN
         /\ Log(Call("GET", lv.configmap_rg_name, lv.configmap_cluster_name,
                     NoCc, NoKey, FALSE, got = "ok"))
         /\ IF e = "raise" THEN Raise("GetFault") /\ UNCHANGED lv
            ELSE /\ lv' = [lv EXCEPT !.recorded_exists = e]
                 /\ IF e = "false"
                    THEN pc' = "c_cleanup" /\ UNCHANGED result
                    ELSE IF IdentityMatches(lv.configmap_rg_name,
                                            lv.configmap_cluster_name,
                                            args.rg, args.name)
                         THEN pc' = "c_fetch" /\ UNCHANGED result
                         ELSE Raise("ClusterAlreadyOnboarded")
    /\ UNCHANGED <<worldVars, stepFrame>>

\* custom.py:211-216: the certificate of the existing resource.
CreateFetchCert ==
    /\ pc = "c_fetch"
    /\ \E got \in GetOutcomes(lv.configmap_rg_name, lv.configmap_cluster_name) :
         /\ Log(Call("GET", lv.configmap_rg_name, lv.configmap_cluster_name,
                     NoCc, NoKey, FALSE, got = "ok"))
         /\ IF got = "ok"
            THEN LET k == remote[Key(lv.configmap_rg_name,
                                     lv.configmap_cluster_name)].cert
                 IN  /\ lv' = [lv EXCEPT !.fetched_key = k, !.public_key = k]
                     /\ pc' = "c_reput"
                     /\ UNCHANGED result
            ELSE /\ arm_exception_handler(got, FALSE) = "raise"
                 /\ Raise("GetFault")
                 /\ UNCHANGED lv
    /\ UNCHANGED <<worldVars, stepFrame>>

\* A PUT succeeds only into an existing resource group, and may fail anyway.
PutOutcomes(rg) == IF lower(rg) \in rgs THEN {TRUE, FALSE} ELSE {FALSE}

\* custom.py:941-946: client.create, a PUT of cc at (rg, name).
create_cc_resource(rg, name, cc, ok) ==
    /\ Log(Call("PUT", rg, name, cc, NoKey, ~args.no_wait, ok))
    /\ remote' = IF ok THEN [remote EXCEPT ![Key(rg, name)] = Resource(cc)]
                 ELSE remote

\* custom.py:949-955: client.delete at (rg, name).
delete_cc_resource(rg, name, ok) ==
    /\ Log(Call("DELETE", rg, name, NoCc, NoKey, ~args.no_wait, ok))
    /\ remote' = IF ok THEN [remote EXCEPT ![Key(rg, name)] = Absent]
                 ELSE remote

\* custom.py:958-993: helm delete; on exit code 0 the release and its
\* config-map are gone and ensure_namespace_cleanup polls without raising.
\* Ends at `nextpc` (with result `res`), or with an error on a non-zero exit.
delete_arc_agents(nextpc, res) ==
    \E ok \in BOOLEAN :
        /\ Log(Call("helm_delete", "", "", NoCc, NoKey, FALSE, ok))
        /\ IF ok
           THEN /\ release' = None
                /\ configmap' = NoConfigMap
                /\ pc' = nextpc
                /\ result' = res
           ELSE /\ Raise("HelmDeleteFault")
                /\ UNCHANGED <<release, configmap>>

\* custom.py:217-218: the payload is rebuilt around the fetched certificate
\* and PUT; the handler then goes on at line 239.
CreateRePut ==
    /\ pc = "c_reput"
    /\ \E ok \in PutOutcomes(args.rg) :
         /\ create_cc_resource(args.rg, args.name,
                generate_request_payload(args.location, lv.public_key,
                                         lv.aad_profile), ok)
         /\ IF ok THEN pc' = "c_rg" /\ UNCHANGED result
                  ELSE Raise("PutFault")
    /\ UNCHANGED <<release, configmap, rgs, nextKey, lv, stepFrame>>

\* custom.py:226-228: the recorded resource is gone: the agents are removed
\* and the handler goes on at line 239.
CreateCleanupAgents ==
    /\ pc = "c_cleanup"
    /\ delete_arc_agents("c_rg", None)
    /\ UNCHANGED <<remote, rgs, nextKey, lv, stepFrame>>

\* custom.py:229-237: no release: the requested resource must not exist.
CreateCheckRequested ==
    /\ pc = "c_exists"
    /\ \E got \in GetOutcomes(args.rg, args.name) :
         LET e == connected_cluster_exists(got) IN
         /\ Log(Call("GET", args.rg, args.name, NoCc, NoKey, FALSE, got = "ok"))
         /\ IF e = "raise" THEN Raise("GetFault") /\ UNCHANGED lv
            ELSE /\ lv' = [lv EXCEPT !.requested_exists = e]
                 /\ IF e = "true" THEN Raise("ResourceAlreadyExists")
                    ELSE pc' = "c_rg" /\ UNCHANGED result
    /\ UNCHANGED <<worldVars, stepFrame>>

\* custom.py:239-245: the resource group is created unless its lookup
\* succeeded.
CreateResourceGroup ==
    /\ pc = "c_rg"
    /\ \E got \in GroupGetOutcomes(args.rg) :
         /\ lv' = [lv EXCEPT !.rg_lookup = got, !.rg_exists =
                       IF resource_group_exists(got) THEN "true" ELSE "false"]
         /\ IF resource_group_exists(got)
            THEN /\ pc' = "c_chart"
                 /\ UNCHANGED <<rgs, calls, result>>
            ELSE \E ok \in BOOLEAN :
                   /\ Log(Call("rg_create", args.rg, "", NoCc, NoKey, FALSE, ok))
                   /\ IF ok
                      THEN /\ rgs' = rgs \cup {lower(args.rg)}
                           /\ pc' = "c_chart"
                           /\ UNCHANGED result
                      ELSE Raise("RgCreateFault") /\ UNCHANGED rgs
    /\ UNCHANGED <<release, configmap, remote, nextKey, stepFrame>>

\* custom.py:247-262: helm repo, registry path, chart pull.
CreateChart ==
    /\ pc = "c_chart"
    /\ \/ Raise("ChartFault")
       \/ pc' = "c_keygen" /\ UNCHANGED result
    /\ UNCHANGED <<worldVars, lv, calls, stepFrame>>

\* custom.py:264-282: a fresh key pair and its two exports.
CreateKeyPair ==
    /\ pc = "c_keygen"
    /\ \/ Raise("KeyPairFault") /\ UNCHANGED <<nextKey, lv, calls>>
       \/ LET k == nextKey + 1 IN
          /\ nextKey' = k
          /\ lv' = [lv EXCEPT !.public_key = get_public_key(k),
                              !.private_key_pem = get_private_key(k)]
          /\ Log(Call("keygen", "", "", NoCc, k, FALSE, TRUE))
          /\ pc' = "c_put"
          /\ UNCHANGED result
    /\ UNCHANGED <<release, configmap, remote, rgs, stepFrame>>

\* custom.py:284-288: the payload is built around the new public key and PUT.
CreatePut ==
    /\ pc = "c_put"
    /\ \E ok \in PutOutcomes(args.rg) :
         LET cc == generate_request_payload(args.location, lv.public_key,
                                            lv.aad_profile) IN
         /\ create_cc_resource(args.rg, args.name, cc, ok)
         /\ IF ok
            THEN /\ lv' = [lv EXCEPT !.put_cc_response =
                                             Response(args.rg, args.name, cc)]
                 /\ pc' = "c_install"
                 /\ UNCHANGED result
            ELSE Raise("PutFault") /\ UNCHANGED lv
    /\ UNCHANGED <<release, configmap, rgs, nextKey, stepFrame>>

\* custom.py:290-295 with helm_install_release, 890-938: helm upgrade
\* --install; exit code 0 leaves the release and a config-map recording the
\* requested identity, and the PUT response is returned.  A failed install
\* may or may not leave the release behind.
CreateInstall ==
    /\ pc = "c_install"
    /\ LET cmd == helm_install_cmd(args.no_wait, lv.private_key_pem) IN
       \E ok \in BOOLEAN :
         /\ Log(Call("helm_install", args.rg, args.name, NoCc, cmd.key,
                     cmd.wait, ok))
         /\ IF ok
            THEN /\ release' = "azure-arc"
                 /\ configmap' = ConfigMap(args.rg, args.name)
                 /\ lv' = [lv EXCEPT !.returned = lv.put_cc_response]
                 /\ pc' = "done"
                 /\ result' = "ok"
            ELSE /\ Raise("HelmInstallFault")
                 /\ UNCHANGED lv
                 /\ \/ UNCHANGED <<release, configmap>>
                    \/ /\ release' = "azure-arc"
                       /\ configmap' = ConfigMap(args.rg, args.name)
    /\ UNCHANGED <<remote, rgs, nextKey, stepFrame>>

CreateNext ==
    \/ StartCreate
    \/ CreateCheckAadArgs
    \/ CreateValidateApps
    \/ CreateLoadEnv
    \/ CreateGetAadProfile
    \/ CreateCheckHelm
    \/ CreateGetRelease
    \/ CreateReadConfigMap
    \/ CreateCheckRecorded
    \/ CreateFetchCert
    \/ CreateRePut
    \/ CreateCleanupAgents
    \/ CreateCheckRequested
    \/ CreateResourceGroup
    \/ CreateChart
    \/ CreateKeyPair
    \/ CreatePut
    \/ CreateInstall

(***************************************************************************)
(* delete_connectedk8s, custom.py:794-862                                  *)
(***************************************************************************)
StartDelete ==
    /\ CanStart
    /\ \E rg \in RGs, n \in Names, nw \in BOOLEAN, kc \in KubeContexts :
          args' = [DefaultArgs EXCEPT !.rg = rg, !.name = n, !.no_wait = nw,
                                      !.kube_context = kc]
    /\ op' = "delete"
    /\ pc' = "d_load"
    /\ lv' = DefaultLv
    /\ calls' = <<>>
    /\ result' = None
    /\ prev' = Summary
    /\ UNCHANGED <<worldVars, aadVars, mergeVars>>

\* custom.py:799-813
DeleteLoadKubeconfig ==
    /\ pc = "d_load"
    /\ \/ Raise("KubeconfigFault")
       \/ pc' = "d_proxy" /\ UNCHANGED result
    /\ UNCHANGED <<worldVars, lv, calls, stepFrame>>

\* custom.py:815-821: the server of the selected context decides.
DeleteCheckProxy ==
    /\ pc = "d_proxy"
    /\ \E cfg \in KubeConfigs :
         LET server_address == get_server_address(cfg, args.kube_context) IN
         IF server_address = <<"Unbound">>
         THEN Raise("KubeconfigFault") /\ UNCHANGED lv
         ELSE /\ lv' = [lv EXCEPT !.server_address = server_address]
              /\ IF check_proxy_kubeconfig(server_address)
                 THEN Raise("ProxyKubeconfig")
                 ELSE pc' = "d_helm" /\ UNCHANGED result
    /\ UNCHANGED <<worldVars, calls, stepFrame>>

\* custom.py:823-832: connectivity, helm installed, helm client version.
DeleteCheckHelm ==
    /\ pc = "d_helm"
    /\ \/ Raise("HelmFault") /\ UNCHANGED lv
       \/ \E out \in HelmVersions :
            IF check_helm_version(out) = "HelmV2"
            THEN Raise("HelmV2") /\ UNCHANGED lv
            ELSE /\ lv' = [lv EXCEPT !.helm_version = out]
                 /\ pc' = "d_release"
                 /\ UNCHANGED result
    /\ UNCHANGED <<worldVars, calls, stepFrame>>

\* custom.py:834-836
DeleteGetRelease ==
    /\ pc = "d_release"
    /\ \/ Raise("HelmListFault") /\ UNCHANGED lv
       \/ /\ lv' = [lv EXCEPT !.release_namespace = release]
          /\ pc' = IF Truthy(release) THEN "d_cm" ELSE "d_resource_only"
          /\ UNCHANGED result
    /\ UNCHANGED <<worldVars, calls, stepFrame>>

\* custom.py:836-838: no release: the resource is deleted and the handler
\* returns.
DeleteResourceOnly ==
    /\ pc = "d_resource_only"
    /\ \E ok \in BOOLEAN :
         /\ delete_cc_resource(args.rg, args.name, ok)
         /\ IF ok THEN pc' = "done" /\ result' = "ok"
                  ELSE Raise("DeleteFault")
    /\ UNCHANGED <<release, configmap, rgs, nextKey, lv, stepFrame>>

\* custom.py:840-847
DeleteReadConfigMap ==
    /\ pc = "d_cm"
    /\ \/ Raise("ConfigMapFault") /\ UNCHANGED lv
       \/ /\ configmap.present
          /\ lv' = [lv EXCEPT !.configmap_rg_name = configmap.rg,
                              !.configmap_cluster_name = configmap.name]
          /\ pc' = "d_match"
          /\ UNCHANGED result
    /\ UNCHANGED <<worldVars, calls, stepFrame>>

\* custom.py:849-859: the resource is deleted when the config-map records
\* the requested identity; otherwise the request is refused.
DeleteMatchingResource ==
    /\ pc = "d_match"
    /\ IF IdentityMatches(lv.configmap_rg_name, lv.configmap_cluster_name,
                          args.rg, args.name)
       THEN \E ok \in BOOLEAN :
              /\ delete_cc_resource(args.rg, args.name, ok)
              /\ IF ok THEN pc' = "d_agents" /\ UNCHANGED result
                       ELSE Raise("DeleteFault")
       ELSE Raise("BadDeleteRequest") /\ UNCHANGED <<remote, calls>>
    /\ UNCHANGED <<release, configmap, rgs, nextKey, lv, stepFrame>>

\* custom.py:861-862
DeleteAgents ==
    /\ pc = "d_agents"
    /\ delete_arc_agents("done", "ok")
    /\ UNCHANGED <<remote, rgs, nextKey, lv, stepFrame>>

DeleteNext ==
    \/ StartDelete
    \/ DeleteLoadKubeconfig
    \/ DeleteCheckProxy
    \/ DeleteCheckHelm
    \/ DeleteGetRelease
    \/ DeleteResourceOnly
    \/ DeleteReadConfigMap
    \/ DeleteMatchingResource
    \/ DeleteAgents

(***************************************************************************)
(* update_agents, custom.py:1205-1370                                      *)
(***************************************************************************)
\* str.str_replace(old, new) for a one-character `old`.
RECURSIVE str_replace(_, _, _)
str_replace(s, old, new) ==
    IF s = <<>> THEN <<>>
    ELSE (IF Head(s) = old THEN new ELSE <<Head(s)>>)
             \o str_replace(Tail(s), old, new)

\* None for a proxy setting.
NoneSetting == <<None>>
\* Mutant of escape_proxy_settings: the slash is left as it is.
escape_proxy_settings_comma_only(proxy_setting) ==
    IF proxy_setting = NoneSetting THEN <<>>
    ELSE str_replace(proxy_setting, ",", <<"\\", ",">>)
\* custom.py:372-377
escape_proxy_settings(proxy_setting) ==
    IF proxy_setting = NoneSetting THEN <<>>
    ELSE str_replace(str_replace(proxy_setting, ",", <<"\\", ",">>),
                 "/", <<"\\", "/">>)

\* "p/,"
ProxyUrl == <<"p", "/", ",">>
ProxySettings == {<<>>, ProxyUrl}
\* "c\p"
ProxyCerts == {<<>>, <<"c", "\\", "p">>}

\* One element of an argument vector, and the pair '--set key=value'.
Arg(s) == <<s>>
SetArg(flag, key, value) == <<Arg(flag), <<key>> \o value>>
HasArg(cmd, a) == \E i \in 1..Len(cmd) : cmd[i] = a

\* Mutant of update_gate: nothing is rejected.
update_gate_open(https_proxy, http_proxy, no_proxy, proxy_cert, disable_proxy) ==
    "ok"
\* custom.py:1234-1238: on the escaped settings.
update_gate(https_proxy, http_proxy, no_proxy, proxy_cert, disable_proxy) ==
    IF https_proxy = <<>> /\ http_proxy = <<>> /\ no_proxy = <<>>
           /\ proxy_cert = <<>> /\ ~disable_proxy
    THEN "NoParam"
    ELSE IF (https_proxy # <<>> \/ http_proxy # <<>> \/ no_proxy # <<>>
                 \/ proxy_cert # <<>>) /\ disable_proxy
    THEN "EnableProxyConflict"
    ELSE "ok"

\* custom.py:1336-1354: the helm upgrade command (no values file, default
\* kubeconfig and context).
cmd_helm_upgrade(https_proxy, http_proxy, no_proxy, proxy_cert, disable_proxy) ==
    <<Arg("helm"), Arg("upgrade"), Arg("azure-arc"), Arg("chart_path"),
      Arg("--reuse-values"), Arg("--wait"), Arg("--output"), Arg("json")>>
    \o (IF https_proxy # <<>>
        THEN SetArg("--set", "global.httpsProxy=", https_proxy) ELSE <<>>)
    \o (IF http_proxy # <<>>
        THEN SetArg("--set", "global.httpProxy=", http_proxy) ELSE <<>>)
    \o (IF no_proxy # <<>>
        THEN SetArg("--set", "global.noProxy=", no_proxy) ELSE <<>>)
    \o (IF https_proxy # <<>> \/ http_proxy # <<>> \/ no_proxy # <<>>
        THEN SetArg("--set", "global.isProxyEnabled=", <<"True">>)
        ELSE <<>>)
    \o (IF disable_proxy
        THEN SetArg("--set", "global.isProxyEnabled=", <<"False">>)
        ELSE <<>>)
    \o (IF proxy_cert # <<>>
        THEN SetArg("--set-file", "global.proxyCert=", proxy_cert)
        ELSE <<>>)

StartUpdate ==
    /\ CanStart
    /\ \E rg \in RGs, n \in Names, hs \in ProxySettings, h \in ProxySettings,
          np \in ProxySettings, cert \in ProxyCerts, dis \in BOOLEAN,
          nw \in BOOLEAN :
          args' = [DefaultArgs EXCEPT !.rg = rg, !.name = n, !.no_wait = nw,
                       !.https_proxy = hs, !.http_proxy = h, !.no_proxy = np,
                       !.proxy_cert = cert, !.disable_proxy = dis]
    /\ op' = "update"
    /\ pc' = "u_start"
    /\ lv' = DefaultLv
    /\ calls' = <<>>
    /\ result' = None
    /\ prev' = Summary
    /\ UNCHANGED <<worldVars, aadVars, mergeVars>>

\* custom.py:1216-1238: the settings are escaped, the certificate path must
\* exist, and the settings must be neither empty nor contradictory.
UpdateCheckInputs ==
    /\ pc = "u_start"
    /\ \E cert_exists \in BOOLEAN :
         IF args.proxy_cert # <<>> /\ ~cert_exists
         THEN Raise("ProxyCertPathFault") /\ UNCHANGED lv
         ELSE LET https_proxy == escape_proxy_settings(args.https_proxy)
                  http_proxy == escape_proxy_settings(args.http_proxy)
                  no_proxy == escape_proxy_settings(args.no_proxy)
                  proxy_cert == str_replace(args.proxy_cert, "\\",
                                            <<"\\", "\\", "\\", "\\">>)
                  gate == update_gate(https_proxy, http_proxy, no_proxy,
                                      proxy_cert, args.disable_proxy)
              IN /\ lv' = [lv EXCEPT !.https_proxy = https_proxy,
                                     !.http_proxy = http_proxy,
                                     !.no_proxy = no_proxy,
                                     !.proxy_cert = proxy_cert]
                 /\ IF gate # "ok" THEN Raise(gate)
                    ELSE pc' = "u_env" /\ UNCHANGED result
    /\ UNCHANGED <<worldVars, calls, stepFrame>>

\* custom.py:1240-1271: values file, kubeconfig load, connectivity check.
UpdateLoadEnv ==
    /\ pc = "u_env"
    /\ \/ Raise("KubeconfigFault")
       \/ pc' = "u_helm" /\ UNCHANGED result
    /\ UNCHANGED <<worldVars, lv, calls, stepFrame>>

\* custom.py:1273-1286: helm must be installed and its client version must
\* pass the gate.
UpdateCheckHelm ==
    /\ pc = "u_helm"
    /\ \/ Raise("HelmFault") /\ UNCHANGED lv
       \/ \E out \in HelmVersions :
            /\ lv' = [lv EXCEPT !.helm_version = out]
            /\ IF check_helm_version(out) # "ok"
               THEN Raise(check_helm_version(out))
               ELSE pc' = "u_exists" /\ UNCHANGED result
    /\ UNCHANGED <<worldVars, calls, stepFrame>>

\* custom.py:1288-1295: the connected cluster must exist.
UpdateCheckExists ==
    /\ pc = "u_exists"
    /\ \E got \in GetOutcomes(args.rg, args.name) :
         LET e == connected_cluster_exists(got) IN
         /\ Log(Call("GET", args.rg, args.name, NoCc, NoKey, FALSE, got = "ok"))
         /\ IF e = "raise" THEN Raise("GetFault") /\ UNCHANGED lv
            ELSE /\ lv' = [lv EXCEPT !.requested_exists = e]
                 /\ IF e = "false" THEN Raise("ResourceDoesNotExist")
                    ELSE pc' = "u_get" /\ UNCHANGED result
    /\ UNCHANGED <<worldVars, stepFrame>>

\* custom.py:1297-1298 with get_connectedk8s, 784-785: the resource is read
\* for its distribution, infrastructure, location and agent version.
UpdateGetCluster ==
    /\ pc = "u_get"
    /\ \E got \in GetOutcomes(args.rg, args.name) :
         /\ Log(Call("GET", args.rg, args.name, NoCc, NoKey, FALSE, got = "ok"))
         /\ IF got = "ok" THEN pc' = "u_chart" /\ UNCHANGED result
            ELSE Raise("GetFault")
    /\ UNCHANGED <<worldVars, lv, stepFrame>>

\* custom.py:1300-1334: distribution and infrastructure, helm repo, registry
\* path, chart pull.
UpdateChart ==
    /\ pc = "u_chart"
    /\ \/ Raise("ChartFault")
       \/ pc' = "u_upgrade" /\ UNCHANGED result
    /\ UNCHANGED <<worldVars, lv, calls, stepFrame>>

\* custom.py:1336-1370: helm upgrade of the release 'azure-arc'; it cannot
\* succeed without the release.
UpdateUpgrade ==
    /\ pc = "u_upgrade"
    /\ LET cmd == cmd_helm_upgrade(lv.https_proxy, lv.http_proxy,
                                   lv.no_proxy, lv.proxy_cert,
                                   args.disable_proxy) IN
       \E ok \in IF release = None THEN {FALSE} ELSE BOOLEAN :
         /\ lv' = [lv EXCEPT !.cmd_helm_upgrade = cmd]
         /\ Log(Call("helm_upgrade", args.rg, args.name, NoCc, NoKey,
                     HasArg(cmd, Arg("--wait")), ok))
         /\ IF ok THEN pc' = "done" /\ result' = "ok"
                  ELSE Raise("HelmUpgradeFault")
    /\ UNCHANGED <<worldVars, stepFrame>>

UpdateNext ==
    \/ StartUpdate
    \/ UpdateCheckInputs
    \/ UpdateLoadEnv
    \/ UpdateCheckHelm
    \/ UpdateCheckExists
    \/ UpdateGetCluster
    \/ UpdateChart
    \/ UpdateUpgrade

Next == CreateNext \/ DeleteNext \/ UpdateNext

Spec == Init /\ [][Next]_vars

(***************************************************************************)
(* SpecAAD: get_aad_profile on every input of a bounded set                *)
(***************************************************************************)
AadFieldValues == {"", "id"}
AadOptionValues == {None, "", "cli"}
AadInputs ==
    [r : [server : AadFieldValues, client : AadFieldValues,
          tenant : AadFieldValues],
     s : AadOptionValues, c : AadOptionValues, t : AadOptionValues]
NotApplied == [applied |-> FALSE, raised |-> FALSE, server |-> "",
               client |-> "", tenant |-> "", aad_enabled |-> FALSE]

QuietWorld ==
    /\ release = None
    /\ configmap = NoConfigMap
    /\ remote = [k \in Keys |-> Absent]
    /\ rgs = {}
    /\ nextKey = 0

InitAAD ==
    /\ QuietWorld /\ IdleInvocation /\ IdleMerge /\ IdleFn
    /\ aadIn \in AadInputs
    /\ aadOut = NotApplied

ApplyGetAadProfile ==
    /\ ~aadOut.applied
    /\ LET p == get_aad_profile(aadIn.r, aadIn.s, aadIn.c, aadIn.t) IN
       aadOut' = [applied |-> TRUE, raised |-> p.raised, server |-> p.server,
                  client |-> p.client, tenant |-> p.tenant,
                  aad_enabled |-> p.aad_enabled]
    /\ UNCHANGED <<worldVars, invVars, aadIn, fnVars, pollVars, concVars,
                   mergeVars>>

NextAAD == ApplyGetAadProfile

SpecAAD == InitAAD /\ [][NextAAD]_vars

\* ---------------------------------------------------------------------
\* Kubeconfig merge (merge_kubernetes_configurations, handle_merge).
\* A name is a sequence of tokens, so that appending '-admin' and testing
\* the prefix 'clusterAdmin' are what they are in the source.
A == <<"a">>
B == <<"b">>
AdminSuffix == <<"-admin">>
AdminPrefix == <<"clusterAdmin">>
UserPlain == <<"clusterUser", "_a">>
UserAdmin == <<"clusterAdmin", "_a">>
NoneName == <<None>>
startswith(s, p) == Len(s) >= Len(p) /\ SubSeq(s, 1, Len(p)) = p

\* A list of a document is a YAML list or null.
NoneList == [isNone |-> TRUE, items |-> <<>>]
L(items) == [isNone |-> FALSE, items |-> items]
MergeKeys == {"clusters", "users", "contexts"}
\* An empty file parses to None.
EmptyFile == [isNone |-> TRUE, clusters |-> NoneList, users |-> NoneList,
              contexts |-> NoneList, current |-> NoneName]
Doc(cl, us, cx, cur) == [isNone |-> FALSE, clusters |-> cl, users |-> us,
                         contexts |-> cx, current |-> cur]
Entry(n, d) == [name |-> n, data |-> d]
Ctx(n, c, u) == [name |-> n, context |-> [cluster |-> c, user |-> u]]

\* Longest list of a kubeconfig given as input, and merges of one fragment.
MaxEntries == 2
MaxMerges == 2
NamesOf(items) == {items[k].name : k \in 1..Len(items)}
UniqueNames(items) ==
    \A k, m \in 1..Len(items) : k # m => items[k].name # items[m].name
UniqueLists(S, n) ==
    {l \in UNION {[1..k -> S] : k \in 0..n} : UniqueNames(l)}

FileClusters == {Entry(n, d) : n \in {A, B}, d \in {1, 2}}
FileUsers == {Entry(UserPlain, d) : d \in {1, 2}}
FileContexts == {Ctx(A, A, UserPlain), Ctx(A, B, UserPlain),
                 Ctx(B, B, UserPlain)}
WithNone(S) == {NoneList} \cup {L(l) : l \in S}
Files ==
    {EmptyFile} \cup
    {Doc(cl, us, cx, A) :
        cl \in WithNone(UniqueLists(FileClusters, MaxEntries)),
        us \in WithNone(UniqueLists(FileUsers, MaxEntries)),
        cx \in WithNone(UniqueLists(FileContexts, MaxEntries))}
AddClusters == {Entry(A, 1), Entry(B, 1)}
AddUsers == {Entry(UserPlain, 1)}
AddContexts == {Ctx(A, A, UserPlain), Ctx(A, A, UserAdmin)}
Additions ==
    {Doc(L(cl), L(us), L(cx), IF cx = <<>> THEN A ELSE cx[1].name) :
        cl \in UniqueLists(AddClusters, MaxEntries),
        us \in UniqueLists(AddUsers, 1),
        cx \in UniqueLists(AddContexts, 1)}
ContextNames == {NoneName, B}
TtyAnswers == {"none", "yes", "no"}

\* Lines 1100-1104: the caller's context name is written over the first
\* context and the first cluster; an empty list has no first element.
rename_context(addition, context_name) ==
    IF context_name = NoneName
    THEN [raised |-> FALSE, doc |-> addition]
    ELSE IF addition.contexts.items = <<>> \/ addition.clusters.items = <<>>
    THEN [raised |-> TRUE, doc |-> addition]
    ELSE [raised |-> FALSE,
          doc |-> [addition EXCEPT
                      !.contexts.items[1].name = context_name,
                      !.contexts.items[1].context.cluster = context_name,
                      !.clusters.items[1].name = context_name,
                      !.current = context_name]]

\* Lines 1107-1114: the first context whose user starts with 'clusterAdmin'
\* gets the suffix '-admin' and becomes the current context.
\* Mutant of rename_admin: the admin context keeps its name.
rename_admin_keep_name(addition) == addition

RECURSIVE rename_admin_from(_, _)
rename_admin_from(addition, k) ==
    IF k > Len(addition.contexts.items) THEN addition
    ELSE IF startswith(addition.contexts.items[k].context.user, AdminPrefix)
    THEN LET admin_name == addition.contexts.items[k].name \o AdminSuffix IN
         [addition EXCEPT !.contexts.items[k].name = admin_name,
                          !.current = admin_name]
    ELSE rename_admin_from(addition, k + 1)
rename_admin(addition) == rename_admin_from(addition, 1)

\* list.remove(j): the first element equal to j goes.
RemoveFirst(list, j) ==
    LET k == CHOOSE k \in 1..Len(list) :
                 list[k] = j /\ \A m \in 1..(k - 1) : list[m] # j
    IN SubSeq(list, 1, k - 1) \o SubSeq(list, k + 1, Len(list))

\* Lines 1163-1167: the answer to the prompt; without a terminal it is no.
prompt_y_n_yes(tty) == TRUE
prompt_y_n(tty) == tty = "yes"

\* Lines 1157-1174: the inner loop walks existing[key] by position while
\* entries are removed from it, as a Python list iterator does.
RECURSIVE scan_existing(_, _, _, _, _)
scan_existing(list, idx, i, replace, tty) ==
    IF idx > Len(list) THEN [raised |-> FALSE, list |-> list]
    ELSE LET j == list[idx] IN
         IF i.name = j.name
         THEN IF replace \/ i = j \/ prompt_y_n(tty)
              THEN scan_existing(RemoveFirst(list, j), idx + 1, i,
                                 replace, tty)
              ELSE [raised |-> TRUE, list |-> list]
         ELSE scan_existing(list, idx + 1, i, replace, tty)

\* Lines 1156-1175: every entry of the addition is appended after the scan.
RECURSIVE merge_entries(_, _, _, _, _)
merge_entries(list, addition, k, replace, tty) ==
    IF k > Len(addition) THEN [raised |-> FALSE, list |-> list]
    ELSE LET r == scan_existing(list, 1, addition[k], replace, tty) IN
         IF r.raised THEN r
         ELSE merge_entries(Append(r.list, addition[k]), addition, k + 1,
                            replace, tty)

\* Mutant of handle_merge: the addition's list takes the place of the
\* existing one.
handle_merge_overwrite(existing, addition, key, replace, tty) ==
    [raised |-> FALSE, existing |-> [existing EXCEPT ![key] = addition[key]]]

\* Lines 1149-1175
handle_merge(existing, addition, key, replace, tty) ==
    IF addition[key].isNone \/ addition[key].items = <<>>
    THEN [raised |-> FALSE, existing |-> existing]
    ELSE IF existing[key].isNone
    THEN [raised |-> FALSE,
          existing |-> [existing EXCEPT ![key] = addition[key]]]
    ELSE LET r == merge_entries(existing[key].items, addition[key].items, 1,
                                replace, tty)
         IN [raised |-> r.raised,
             existing |-> [existing EXCEPT ![key] = L(r.list)]]

InitMerge ==
    /\ QuietWorld /\ IdleInvocation /\ IdleAAD /\ IdleFn
    /\ kfile \in Files
    /\ mpc = "idle" /\ margs = <<>> /\ mres = "none"
    /\ mlv = <<>> /\ kstart = <<>>

mergeFrame == <<worldVars, invVars, aadVars>>
MergeRaise(tag) == mpc' = "done" /\ mres' = tag

MergeStart ==
    /\ mpc = "idle"
    /\ \E add \in Additions, replace \in BOOLEAN, tty \in TtyAnswers,
          cn \in ContextNames :
          /\ replace => tty = "none"
          /\ margs' = [addition |-> add, replace |-> replace,
                       context_name |-> cn, tty |-> tty]
    /\ mpc' = "m_load" /\ mres' = "none"
    /\ mlv' = [existing |-> EmptyFile, addition |-> EmptyFile, round |-> 1]
    /\ kstart' = kfile
    /\ UNCHANGED <<kfile, mergeFrame>>

\* Lines 1092-1122: both documents are loaded, the addition is renamed, and
\* an empty existing document is replaced by the addition.
MergeLoad ==
    /\ mpc = "m_load"
    /\ \E ok \in BOOLEAN :
          IF ~ok THEN MergeRaise("LoadFault") /\ UNCHANGED mlv
          ELSE LET renamed == rename_context(margs.addition,
                                             margs.context_name) IN
               IF renamed.raised
               THEN MergeRaise("IndexError") /\ UNCHANGED mlv
               ELSE LET addition == rename_admin(renamed.doc) IN
                    /\ mlv' = [mlv EXCEPT
                                  !.existing = IF kfile.isNone THEN addition
                                               ELSE kfile,
                                  !.addition = addition]
                    /\ mpc' = IF kfile.isNone THEN "m_write"
                              ELSE "m_clusters"
                    /\ UNCHANGED mres
    /\ UNCHANGED <<kfile, margs, kstart, mergeFrame>>

MergeList(key, nextpc) ==
    LET r == handle_merge(mlv.existing, mlv.addition, key, margs.replace,
                          margs.tty) IN
    /\ IF r.raised
       THEN /\ mlv' = [mlv EXCEPT !.existing = r.existing]
            /\ MergeRaise("Conflict")
       ELSE /\ mlv' = [mlv EXCEPT !.existing =
                          IF key = "contexts"
                          THEN [r.existing EXCEPT
                                   !.current = mlv.addition.current]
                          ELSE r.existing]
            /\ mpc' = nextpc
            /\ UNCHANGED mres
    /\ UNCHANGED <<kfile, margs, kstart, mergeFrame>>

MergeClusters == mpc = "m_clusters" /\ MergeList("clusters", "m_users")
MergeUsers == mpc = "m_users" /\ MergeList("users", "m_contexts")
MergeContexts == mpc = "m_contexts" /\ MergeList("contexts", "m_write")

\* Lines 1136-1142: the file is opened for writing, which empties it, and
\* the merged document is dumped; a failed dump leaves the emptied file.
MergeWrite ==
    /\ mpc = "m_write"
    /\ \E ok \in BOOLEAN :
          IF ok THEN kfile' = mlv.existing /\ MergeRaise("ok")
          ELSE kfile' = EmptyFile /\ MergeRaise("DumpFault")
    /\ UNCHANGED <<margs, mlv, kstart, mergeFrame>>

\* The same fragment is merged into the same file once more.
MergeAgain ==
    /\ mpc = "done" /\ mres = "ok"
    /\ mlv.round < MaxMerges
    /\ mpc' = "m_load" /\ mres' = "none"
    /\ mlv' = [existing |-> EmptyFile, addition |-> EmptyFile,
               round |-> mlv.round + 1]
    /\ kstart' = kfile
    /\ UNCHANGED <<kfile, margs, mergeFrame>>

NextMerge ==
    \/ MergeStart
    \/ MergeLoad
    \/ MergeClusters
    \/ MergeUsers
    \/ MergeContexts
    \/ MergeWrite
    \/ MergeAgain

SpecMerge == InitMerge /\ [][NextMerge]_vars

(***************************************************************************)
(* Two merge_kubernetes_configurations on one file, custom.py:1091-1142    *)
(***************************************************************************)
Procs == {1, 2}
\* The fragment each process merges (nothing else is shared but the file).
Fragment(p) ==
    IF p = 1
    THEN Doc(L(<<Entry(A, 1)>>), L(<<Entry(UserPlain, 1)>>),
             L(<<Ctx(A, A, UserPlain)>>), A)
    ELSE Doc(L(<<Entry(B, 1)>>), L(<<Entry(UserAdmin, 1)>>),
             L(<<Ctx(B, B, UserAdmin)>>), B)

InitConc ==
    /\ QuietWorld /\ IdleInvocation /\ IdleAAD
    /\ fnIn = <<>> /\ fnOut = <<>> /\ IdlePoll
    /\ kfile \in Files
    /\ mpc = "idle" /\ margs = <<>> /\ mres = "none"
    /\ mlv = <<>> /\ kstart = <<>>
    /\ cm \in [Procs -> {[pc |-> "load", replace |-> r, existing |-> EmptyFile,
                          addition |-> EmptyFile, result |-> "none"] :
                            r \in BOOLEAN}]
    /\ order = <<>>

concFrame ==
    <<worldVars, invVars, aadIn, aadOut, fnVars, pollVars, mpc, margs, mres,
      mlv, kstart>>

\* Lines 1092-1122: the process reads the file as it is now.
ConcLoad(p) ==
    /\ cm[p].pc = "load"
    /\ order' = Append(order, p)
    /\ \E ok \in BOOLEAN :
         IF ~ok
         THEN cm' = [cm EXCEPT ![p].pc = "done", ![p].result = "LoadFault"]
         ELSE LET addition ==
                      rename_admin(rename_context(Fragment(p), NoneName).doc)
              IN cm' = [cm EXCEPT
                          ![p].existing = IF kfile.isNone THEN addition
                                          ELSE kfile,
                          ![p].addition = addition,
                          ![p].pc = IF kfile.isNone THEN "write"
                                    ELSE "merge"]
    /\ UNCHANGED <<kfile, concFrame>>

\* Lines 1123-1127: the three lists are merged in memory (no terminal).
ConcMerge(p) ==
    /\ cm[p].pc = "merge"
    /\ LET c == handle_merge(cm[p].existing, cm[p].addition, "clusters",
                             cm[p].replace, "none")
           u == handle_merge(c.existing, cm[p].addition, "users",
                             cm[p].replace, "none")
           x == handle_merge(u.existing, cm[p].addition, "contexts",
                             cm[p].replace, "none")
       IN cm' = IF c.raised \/ u.raised \/ x.raised
                THEN [cm EXCEPT ![p].pc = "done", ![p].result = "Conflict"]
                ELSE [cm EXCEPT
                         ![p].existing =
                             [x.existing EXCEPT
                                 !.current = cm[p].addition.current],
                         ![p].pc = "write"]
    /\ UNCHANGED <<kfile, order, concFrame>>

\* Lines 1136-1142: the process writes its document over the file.
ConcWrite(p) ==
    /\ cm[p].pc = "write"
    /\ order' = Append(order, p)
    /\ \E ok \in BOOLEAN :
         IF ok
         THEN /\ kfile' = cm[p].existing
              /\ cm' = [cm EXCEPT ![p].pc = "done", ![p].result = "ok"]
         ELSE /\ kfile' = EmptyFile
              /\ cm' = [cm EXCEPT ![p].pc = "done", ![p].result = "DumpFault"]
    /\ UNCHANGED concFrame

NextConc ==
    \/ \E p \in Procs : ConcLoad(p)
    \/ \E p \in Procs : ConcMerge(p)
    \/ \E p \in Procs : ConcWrite(p)

SpecConc == InitConc /\ [][NextConc]_vars

(***************************************************************************)
(* escape_proxy_settings and the proxy arguments of helm install           *)
(***************************************************************************)
\* Longest proxy setting given as input.
MaxLen == 3
EscAlphabet == {"a", ",", "/", "\\"}
EscSettings ==
    {NoneSetting} \cup UNION {[1..n -> EscAlphabet] : n \in 0..MaxLen}
ProxyKeys == {"https", "http", "no"}

\* Mutant of helm_install_proxy_args: a proxy certificate alone enables the
\* proxy.
helm_install_proxy_args_cert_enables(https_proxy, http_proxy, no_proxy, proxy_cert) ==
    (IF https_proxy # <<>>
     THEN SetArg("--set", "global.httpsProxy=", https_proxy) ELSE <<>>)
    \o (IF http_proxy # <<>>
        THEN SetArg("--set", "global.httpProxy=", http_proxy) ELSE <<>>)
    \o (IF no_proxy # <<>>
        THEN SetArg("--set", "global.noProxy=", no_proxy) ELSE <<>>)
    \o (IF proxy_cert # <<>>
        THEN SetArg("--set-file", "global.proxyCert=", proxy_cert)
        ELSE <<>>)
    \o (IF https_proxy # <<>> \/ http_proxy # <<>> \/ no_proxy # <<>>
           \/ proxy_cert # <<>>
        THEN SetArg("--set", "global.isProxyEnabled=", <<"True">>)
        ELSE <<>>)

\* custom.py:911-920: the proxy arguments helm_install_release appends.
helm_install_proxy_args(https_proxy, http_proxy, no_proxy, proxy_cert) ==
    (IF https_proxy # <<>>
     THEN SetArg("--set", "global.httpsProxy=", https_proxy) ELSE <<>>)
    \o (IF http_proxy # <<>>
        THEN SetArg("--set", "global.httpProxy=", http_proxy) ELSE <<>>)
    \o (IF no_proxy # <<>>
        THEN SetArg("--set", "global.noProxy=", no_proxy) ELSE <<>>)
    \o (IF proxy_cert # <<>>
        THEN SetArg("--set-file", "global.proxyCert=", proxy_cert)
        ELSE <<>>)
    \o (IF https_proxy # <<>> \/ http_proxy # <<>> \/ no_proxy # <<>>
        THEN SetArg("--set", "global.isProxyEnabled=", <<"True">>)
        ELSE <<>>)

InitEscape ==
    /\ QuietWorld /\ IdleInvocation /\ IdleAAD /\ IdleMerge /\ IdlePoll
    /\ IdleConc
    /\ fnIn \in [setting : EscSettings, key : ProxyKeys]
    /\ fnOut = [applied |-> FALSE, escaped |-> <<>>, argv |-> <<>>]

\* custom.py:97-103 and 290-293: the setting is escaped and handed to
\* helm_install_release under its key.
ApplyEscape ==
    /\ ~fnOut.applied
    /\ LET e == escape_proxy_settings(fnIn.setting) IN
       fnOut' = [applied |-> TRUE, escaped |-> e,
                 argv |-> helm_install_proxy_args(
                              IF fnIn.key = "https" THEN e ELSE <<>>,
                              IF fnIn.key = "http" THEN e ELSE <<>>,
                              IF fnIn.key = "no" THEN e ELSE <<>>,
                              <<>>)]
    /\ UNCHANGED <<worldVars, invVars, aadIn, aadOut, fnIn, pollVars,
                   concVars, mergeVars>>

NextEscape == ApplyEscape

SpecEscape == InitEscape /\ [][NextEscape]_vars

(***************************************************************************)
(* The proxy arguments of helm install and helm upgrade                    *)
(***************************************************************************)
\* A setting is None, '' or a URL.
ProxyInputs == {NoneSetting, <<>>, ProxyUrl}

InitProxyArgs ==
    /\ QuietWorld /\ IdleInvocation /\ IdleAAD /\ IdleMerge /\ IdlePoll
    /\ IdleConc
    /\ fnIn \in [https_proxy : ProxyInputs, http_proxy : ProxyInputs,
                 no_proxy : ProxyInputs, proxy_cert : ProxyCerts,
                 disable_proxy : BOOLEAN]
    /\ fnOut = [applied |-> FALSE, gate |-> "", cmd_helm_install |-> <<>>,
                cmd_helm_upgrade |-> <<>>]

\* custom.py:97-113 with 911-920 (create; disable_proxy is not a parameter
\* of it), and 1216-1238 with 1345-1356 (update_agents, whose command is
\* built only when the input check passes).
ApplyProxyArgs ==
    /\ ~fnOut.applied
    /\ LET https_proxy == escape_proxy_settings(fnIn.https_proxy)
           http_proxy == escape_proxy_settings(fnIn.http_proxy)
           no_proxy == escape_proxy_settings(fnIn.no_proxy)
           proxy_cert == str_replace(fnIn.proxy_cert, "\\",
                                     <<"\\", "\\", "\\", "\\">>)
           gate == update_gate(https_proxy, http_proxy, no_proxy, proxy_cert,
                               fnIn.disable_proxy)
       IN fnOut' =
            [applied |-> TRUE,
             gate |-> gate,
             cmd_helm_install |->
                 helm_install_proxy_args(https_proxy, http_proxy, no_proxy,
                                         proxy_cert),
             cmd_helm_upgrade |->
                 IF gate = "ok"
                 THEN cmd_helm_upgrade(https_proxy, http_proxy, no_proxy,
                                       proxy_cert, fnIn.disable_proxy)
                 ELSE <<>>]
    /\ UNCHANGED <<worldVars, invVars, aadIn, aadOut, fnIn, pollVars,
                   concVars, mergeVars>>

NextProxyArgs == ApplyProxyArgs

SpecProxyArgs == InitProxyArgs /\ [][NextProxyArgs]_vars

(***************************************************************************)
(* list_cluster_user_credentials and print_or_merge_credentials,           *)
(* custom.py:1002-1088                                                     *)
(***************************************************************************)
\* The text of a kubeconfig: one that parses to a document, or one that
\* yaml.safe_load rejects.
Text(d) == [parses |-> TRUE, doc |-> d]
Garbage == [parses |-> FALSE, doc |-> EmptyFile]
CredFragments ==
    {Text(a) : a \in {d \in Additions : /\ Len(d.clusters.items) = 1
                                        /\ Len(d.users.items) = 1}}
    \cup {Garbage}
\* The kubeconfig path: its directory is missing, the file is missing, or
\* the file is there.
CredDocs ==
    {EmptyFile,
     Doc(L(<<Entry(A, 1)>>), L(<<Entry(UserPlain, 1)>>),
         L(<<Ctx(A, A, UserPlain)>>), A),
     Doc(L(<<Entry(A, 2)>>), L(<<Entry(UserPlain, 2)>>),
         L(<<Ctx(A, B, UserPlain)>>), A)}
CredFiles ==
    {[state |-> s, doc |-> EmptyFile] : s \in {"nodir", "absent"}}
    \cup {[state |-> "present", doc |-> d] : d \in CredDocs}
\* The connected cluster as client.get returns it: aad_profile is None or
\* has three strings.
NoProfile == [isNone |-> TRUE, tenant_id |-> "", client_app_id |-> "",
              server_app_id |-> ""]
CredProfiles ==
    {NoProfile} \cup
    {[isNone |-> FALSE, tenant_id |-> t, client_app_id |-> c,
      server_app_id |-> s] : t, c, s \in {"", "id"}}
CredClusters ==
    {[found |-> FALSE, aad_profile |-> NoProfile]} \cup
    {[found |-> TRUE, aad_profile |-> p] : p \in CredProfiles}
Tokens == {NoneSetting, <<"tok">>}

\* connected_cluster_operations.py:369-370: the parameters of the
\* operation after self that have no default value.
RequiredParameters ==
    <<"resource_group_name", "cluster_name", "authentication_method",
      "value">>
\* A Python call binds positional arguments to the parameters in order; a
\* parameter without default that gets no argument is a TypeError.
bind_arguments(parameters, arguments) ==
    IF Len(arguments) < Len(parameters)
    THEN [raised |-> TRUE, bound |-> <<>>]
    ELSE [raised |-> FALSE, bound |-> SubSeq(arguments, 1, Len(parameters))]
\* connected_cluster_operations.py:400-402 and 428-431: the body of the
\* request is None when both authentication_method and value are None.
client_authentication_details(authentication_method, value) ==
    IF authentication_method # NoneSetting \/ value # NoneSetting
    THEN <<authentication_method, value>>
    ELSE <<>>

\* Lines 1100-1127 on the two loaded documents.
merge_documents(existing, addition, replace, context_name, tty) ==
    LET renamed == rename_context(addition, context_name) IN
    IF renamed.raised THEN [raised |-> "IndexError", doc |-> existing]
    ELSE
    LET add == rename_admin(renamed.doc) IN
    IF existing.isNone THEN [raised |-> "", doc |-> add]
    ELSE
    LET c == handle_merge(existing, add, "clusters", replace, tty) IN
    IF c.raised THEN [raised |-> "Conflict", doc |-> existing]
    ELSE
    LET u == handle_merge(c.existing, add, "users", replace, tty) IN
    IF u.raised THEN [raised |-> "Conflict", doc |-> existing]
    ELSE
    LET x == handle_merge(u.existing, add, "contexts", replace, tty) IN
    IF x.raised THEN [raised |-> "Conflict", doc |-> existing]
    ELSE [raised |-> "",
          doc |-> [x.existing EXCEPT !.current = add.current]]

\* Mutant of finally_remove: the temp file is removed only when nothing was
\* raised.
finally_remove_on_success(temps, temp_path, pending) ==
    IF pending = "" THEN temps \ {temp_path} ELSE temps

\* Lines 1086-1088: the finally clause removes the temp file whatever was
\* raised.
finally_remove(temps, temp_path, pending) ==
    temps \ {temp_path}

InitCreds ==
    /\ QuietWorld /\ IdleInvocation /\ IdleAAD /\ IdleMerge /\ IdlePoll
    /\ IdleConc
    /\ fnIn \in [entry : {"list_cluster_user_credentials",
                          "print_or_merge_credentials"},
                 token : Tokens, path : {"-", "config"},
                 context_name : ContextNames, overwrite_existing : BOOLEAN,
                 tty : TtyAnswers, kubeconfig : CredFragments,
                 cluster : CredClusters]
    /\ fnIn.overwrite_existing => fnIn.tty = "none"
    /\ \E f \in CredFiles :
          fnOut = [pc |-> IF fnIn.entry = "list_cluster_user_credentials"
                          THEN "l_start" ELSE "p_start",
                   file |-> f, temps |-> {}, kubeconfig |-> fnIn.kubeconfig,
                   pending |-> "", result |-> "none", calls |-> <<>>,
                   printed |-> FALSE]

credFrame == <<worldVars, invVars, aadIn, aadOut, fnIn, pollVars, concVars,
               mergeVars>>
CredRaise(tag) == [fnOut EXCEPT !.pc = "done", !.result = tag]

\* Lines 1012-1036: without a token the cluster is fetched and its AAD
\* profile inspected; with a token the token is the value of the request.
CredGet ==
    /\ fnOut.pc = "l_start"
    /\ IF fnIn.token = NoneSetting
       THEN \E ok \in BOOLEAN :
              LET got == [fnOut EXCEPT !.calls = Append(@, <<"get">>)]
                  aadProfile == fnIn.cluster.aad_profile
              IN fnOut' =
                   IF ~ok \/ ~fnIn.cluster.found
                   THEN [got EXCEPT !.pc = "done", !.result = "GetFault"]
                   ELSE IF aadProfile.isNone
                   THEN [got EXCEPT !.pc = "done", !.result = "NeedsToken"]
                   ELSE IF \/ aadProfile.tenant_id = ""
                           \/ aadProfile.client_app_id = ""
                           \/ aadProfile.server_app_id = ""
                   THEN [got EXCEPT !.pc = "done", !.result = "NeedsToken"]
                   ELSE [got EXCEPT !.pc = "l_request"]
       ELSE fnOut' = [fnOut EXCEPT !.pc = "l_request"]
    /\ UNCHANGED credFrame

\* Lines 1038-1043 with connected_cluster_operations.py:369-402: the call
\* passes three positional arguments; the request is sent only when the
\* arguments bind.
CredRequest ==
    /\ fnOut.pc = "l_request"
    /\ LET value == fnIn.token
           b == bind_arguments(RequiredParameters,
                               <<<<"rg">>, <<"name">>, value>>)
       IN IF b.raised
          THEN fnOut' = CredRaise("CredentialsFault")
          ELSE \E ok \in BOOLEAN :
                 LET sent == [fnOut EXCEPT !.calls =
                                Append(@, <<"list_cluster_user_credentials">>
                                          \o client_authentication_details(
                                                 b.bound[3], b.bound[4]))]
                 IN fnOut' =
                      IF ok THEN [sent EXCEPT !.pc = "p_start"]
                      ELSE [sent EXCEPT !.pc = "done",
                                        !.result = "CredentialsFault"]
    /\ UNCHANGED credFrame

\* Lines 1057-1079: the fragment is printed for the path '-'; otherwise
\* the directory and an empty file are created when missing and the temp
\* file is made.
PrintOrMergeStart ==
    /\ fnOut.pc = "p_start"
    /\ IF fnIn.path = "-"
       THEN fnOut' = [fnOut EXCEPT !.pc = "p_end", !.printed = TRUE]
       ELSE \E ok \in BOOLEAN :
              IF fnOut.file.state = "nodir" /\ ~ok
              THEN fnOut' = [fnOut EXCEPT !.pc = "p_end",
                                          !.pending = "DirectoryFault"]
              ELSE fnOut' = [fnOut EXCEPT !.pc = "p_merge",
                                          !.file.state = "present",
                                          !.temps = @ \cup {"temp_path"}]
    /\ UNCHANGED credFrame

\* Lines 1080-1083 with 1091-1142: the fragment is written to the temp
\* file and merged into the kubeconfig; a document that does not load and
\* a dump that fails are raised as errors of the command.
PrintOrMergeMerge ==
    /\ fnOut.pc = "p_merge"
    /\ \E load_ok, dump_ok \in BOOLEAN :
          LET m == IF ~load_ok \/ ~fnOut.kubeconfig.parses
                   THEN [raised |-> "LoadFault", doc |-> fnOut.file.doc]
                   ELSE merge_documents(fnOut.file.doc, fnOut.kubeconfig.doc,
                                        fnIn.overwrite_existing,
                                        fnIn.context_name, fnIn.tty)
          IN fnOut' =
               IF m.raised # ""
               THEN [fnOut EXCEPT !.pc = "p_finally", !.pending = m.raised]
               ELSE IF dump_ok
               THEN [fnOut EXCEPT !.pc = "p_finally", !.file.doc = m.doc]
               ELSE [fnOut EXCEPT !.pc = "p_finally",
                                  !.file.doc = EmptyFile,
                                  !.pending = "DumpFault"]
    /\ UNCHANGED credFrame

\* Lines 1084-1088: a YAML error is logged and dropped, and the finally
\* clause closes and removes the temp file.
PrintOrMergeFinally ==
    /\ fnOut.pc = "p_finally"
    /\ fnOut' = [fnOut EXCEPT
                    !.pc = "p_end",
                    !.pending = IF @ = "YAMLError" THEN "" ELSE @,
                    !.temps = finally_remove(@, "temp_path", fnOut.pending)]
    /\ UNCHANGED credFrame

\* Lines 1044-1050: the caller wraps whatever print_or_merge_credentials
\* raised; called on its own the function raises it as it is.
PrintOrMergeReturn ==
    /\ fnOut.pc = "p_end"
    /\ fnOut' = [fnOut EXCEPT
                    !.pc = "done",
                    !.result =
                        IF fnOut.pending = "" THEN "ok"
                        ELSE IF fnIn.entry = "list_cluster_user_credentials"
                        THEN "CredentialsFault"
                        ELSE fnOut.pending]
    /\ UNCHANGED credFrame

NextCreds ==
    \/ CredGet
    \/ CredRequest
    \/ PrintOrMergeStart
    \/ PrintOrMergeMerge
    \/ PrintOrMergeFinally
    \/ PrintOrMergeReturn

SpecCreds == InitCreds /\ [][NextCreds]_vars

(***************************************************************************)
(* get_kubernetes_distro, custom.py:493-524                                *)
(***************************************************************************)
LabelKeys == {"node.openshift.io/os_id",
              "kubernetes.azure.com/node-image-version",
              "cloud.google.com/gke-nodepool",
              "cloud.google.com/gke-os-distribution",
              "eks.amazonaws.com/nodegroup",
              "minikube.k8s.io/version"}
AnnotationKeys == {"rke.cattle.io/external-ip", "rke.cattle.io/internal-ip"}
\* dict.get gives None for a missing key; a value may be the empty string.
LabelValues == {None, "", "v"}
KindPrefix == <<"k", "i", "n", "d", ":", "/", "/">>
K3sPrefix == <<"k", "3", "s", ":", "/", "/">>
MocPrefix == <<"m", "o", "c", ":", "/", "/">>
\* str(provider_id) of the node: 'kind://n', 'k3s://n', 'moc://n',
\* 'azure://n', and 'None' for a node without provider id.
ProviderIds == {KindPrefix \o <<"n">>, K3sPrefix \o <<"n">>,
                MocPrefix \o <<"n">>,
                <<"a", "z", "u", "r", "e", ":", "/", "/", "n">>,
                <<"N", "o", "n", "e">>}
\* metadata.labels and metadata.annotations are dicts or None.
Nodes ==
    [labelsNone : BOOLEAN, labels : [LabelKeys -> LabelValues],
     provider_id : ProviderIds,
     annotationsNone : BOOLEAN, annotations : [AnnotationKeys -> {None, "v"}]]
OpenshiftNode ==
    [labelsNone |-> FALSE,
     labels |-> [k \in LabelKeys |->
                    IF k = "node.openshift.io/os_id" THEN "v" ELSE None],
     provider_id |-> <<"N", "o", "n", "e">>,
     annotationsNone |-> FALSE,
     annotations |-> [k \in AnnotationKeys |-> None]]

\* utils.kubernetes_exception_handler: raises unless raise_error is False.
kubernetes_exception_handler(raise_error) ==
    IF raise_error THEN "raise" ELSE "return"

\* custom.py:498-519 on the first node; "except" when reading a label or an
\* annotation of None raises.
distro_of_node(node) ==
    LET labels == node.labels
        provider_id == node.provider_id
        annotations == node.annotations
    IN IF node.labelsNone THEN "except"
       ELSE IF Truthy(labels["node.openshift.io/os_id"]) THEN "openshift"
       ELSE IF Truthy(labels["kubernetes.azure.com/node-image-version"])
       THEN "aks"
       ELSE IF Truthy(labels["cloud.google.com/gke-nodepool"])
               \/ Truthy(labels["cloud.google.com/gke-os-distribution"])
       THEN "gke"
       ELSE IF Truthy(labels["eks.amazonaws.com/nodegroup"]) THEN "eks"
       ELSE IF Truthy(labels["minikube.k8s.io/version"]) THEN "minikube"
       ELSE IF startswith(provider_id, KindPrefix) THEN "kind"
       ELSE IF startswith(provider_id, K3sPrefix) THEN "k3s"
       ELSE IF node.annotationsNone THEN "except"
       ELSE IF Truthy(annotations["rke.cattle.io/external-ip"])
               \/ Truthy(annotations["rke.cattle.io/internal-ip"])
       THEN "rancher_rke"
       ELSE IF startswith(provider_id, MocPrefix) THEN "generic"
       ELSE "generic"

\* Mutant of get_kubernetes_distro: the last node is inspected.
get_kubernetes_distro_last_node(resp) ==
    LET d == IF resp.raised THEN "except"
             ELSE IF resp.items # <<>>
             THEN distro_of_node(resp.items[Len(resp.items)])
             ELSE "generic"
    IN IF d = "except"
       THEN [raised |-> kubernetes_exception_handler(FALSE) = "raise",
             value |-> "generic"]
       ELSE [raised |-> FALSE, value |-> d]

\* custom.py:493-524; resp is how list_node ended.
get_kubernetes_distro(resp) ==
    LET d == IF resp.raised THEN "except"
             ELSE IF resp.items # <<>> THEN distro_of_node(resp.items[1])
             ELSE "generic"
    IN IF d = "except"
       THEN [raised |-> kubernetes_exception_handler(FALSE) = "raise",
             value |-> "generic"]
       ELSE [raised |-> FALSE, value |-> d]

InitDistro ==
    /\ QuietWorld /\ IdleInvocation /\ IdleAAD /\ IdleMerge /\ IdlePoll
    /\ IdleConc
    /\ fnIn \in {[raised |-> TRUE, items |-> <<>>],
                 [raised |-> FALSE, items |-> <<>>]}
           \cup {[raised |-> FALSE, items |-> <<n>>] : n \in Nodes}
           \cup {[raised |-> FALSE, items |-> <<n, OpenshiftNode>>] :
                    n \in Nodes}
    /\ fnOut = [applied |-> FALSE, raised |-> FALSE, value |-> ""]

ApplyDistro ==
    /\ ~fnOut.applied
    /\ LET d == get_kubernetes_distro(fnIn) IN
       fnOut' = [applied |-> TRUE, raised |-> d.raised, value |-> d.value]
    /\ UNCHANGED <<worldVars, invVars, aadIn, aadOut, fnIn, pollVars,
                   concVars, mergeVars>>

NextDistro == ApplyDistro

SpecDistro == InitDistro /\ [][NextDistro]_vars

(***************************************************************************)
(* delete_arc_agents and ensure_namespace_cleanup, custom.py:958-993       *)
(***************************************************************************)
\* custom.py:979: timeout = time.time() + 180
Deadline == 180
\* custom.py:989: time.sleep(5)
SleepSeconds == 5
pollFrame ==
    <<worldVars, invVars, aadIn, aadOut, fnVars, concVars, mergeVars>>
Polling == poll.pc \in {"p_top", "p_query", "p_sleep"}
NoWait == -1
\* Seconds from t0 to t1, counted up to SleepSeconds.
Elapsed(t) == IF t >= SleepSeconds THEN SleepSeconds ELSE t

InitPoll ==
    /\ QuietWorld /\ IdleInvocation /\ IdleAAD /\ IdleMerge
    /\ fnIn = <<>> /\ fnOut = <<>> /\ IdleConc
    /\ now = 0
    /\ nsPresent = TRUE
    /\ poll = [pc |-> "p_helm", timeout |-> 0, queries |-> 0,
               since |-> NoWait,   \* seconds since the latest list_namespace
               waited |-> NoWait,  \* seconds between the latest two
               warned |-> FALSE, result |-> None]

\* custom.py:959-973: helm delete; a non-zero exit code raises.
PollHelmDelete ==
    /\ poll.pc = "p_helm"
    /\ \E returncode \in {0, 1} :
         poll' = IF returncode # 0
                 THEN [poll EXCEPT !.pc = "p_done",
                                   !.result = "HelmDeleteFault"]
                 ELSE [poll EXCEPT !.pc = "p_enter"]
    /\ UNCHANGED <<now, nsPresent, pollFrame>>

\* custom.py:974, 978-979
PollEnter ==
    /\ poll.pc = "p_enter"
    /\ poll' = [poll EXCEPT !.pc = "p_top", !.timeout = now + Deadline]
    /\ UNCHANGED <<now, nsPresent, pollFrame>>

\* custom.py:980-984
PollDeadline ==
    /\ poll.pc = "p_top"
    /\ poll' = IF now > poll.timeout
               THEN [poll EXCEPT !.pc = "p_done", !.warned = TRUE,
                                 !.result = "ok"]
               ELSE [poll EXCEPT !.pc = "p_query"]
    /\ UNCHANGED <<now, nsPresent, pollFrame>>

\* custom.py:985-988 and 990-993: list_namespace; the except clause logs and
\* goes back to the top of the loop.
PollQuery ==
    /\ poll.pc = "p_query"
    /\ \E raised \in BOOLEAN :
         LET q == [poll EXCEPT !.queries = IF @ < 2 THEN @ + 1 ELSE @,
                               !.waited = poll.since,
                               !.since = 0]
         IN poll' =
              IF raised
              THEN IF kubernetes_exception_handler(FALSE) = "raise"
                   THEN [q EXCEPT !.pc = "p_done", !.warned = TRUE,
                                  !.result = "NamespaceFault"]
                   ELSE [q EXCEPT !.pc = "p_top", !.warned = TRUE]
              ELSE IF ~nsPresent
              THEN [q EXCEPT !.pc = "p_done", !.result = "ok"]
              ELSE [q EXCEPT !.pc = "p_sleep"]
    /\ UNCHANGED <<now, nsPresent, pollFrame>>

\* custom.py:989
PollSleep ==
    /\ poll.pc = "p_sleep"
    /\ now' = now + SleepSeconds
    /\ poll' = [poll EXCEPT !.pc = "p_top",
                            !.since = Elapsed(@ + SleepSeconds)]
    /\ UNCHANGED <<nsPresent, pollFrame>>

\* Time passes while the loop runs (the clock is followed until it is past
\* the deadline).
Tick ==
    /\ Polling
    /\ now <= poll.timeout
    /\ now' = now + 1
    /\ poll' = [poll EXCEPT !.since = IF @ = NoWait THEN @
                                      ELSE Elapsed(@ + 1)]
    /\ UNCHANGED <<nsPresent, pollFrame>>

\* The cluster finishes terminating the namespace.
NamespaceRemoved ==
    /\ Polling
    /\ nsPresent
    /\ nsPresent' = FALSE
    /\ UNCHANGED <<now, poll, pollFrame>>

PollStep ==
    \/ PollHelmDelete
    \/ PollEnter
    \/ PollDeadline
    \/ PollQuery
    \/ PollSleep

NextPoll ==
    \/ PollHelmDelete
    \/ PollEnter
    \/ PollDeadline
    \/ PollQuery
    \/ PollSleep
    \/ Tick
    \/ NamespaceRemoved

SpecPoll == InitPoll /\ [][NextPoll]_vars

\* The process keeps running and the clock keeps advancing.
SpecPollFair ==
    SpecPoll /\ WF_pollVars(PollStep) /\ WF_pollVars(Tick)

\* The triple get_aad_profile validates: the retrieved one after the
\* command-line overrides.
ResultingTriple == OverrideRetrieved(aadIn.r, aadIn.s, aadIn.c, aadIn.t)
AllNonEmpty(p) == p.server # "" /\ p.client # "" /\ p.tenant # ""

\* The tenant id handed to get_aad_profile is pre-filled with the onboarding
\* tenant (custom.py:63, 737), so a triple without server and client app id
\* is the empty one.
NoAppIds(p) == p.server = "" /\ p.client = ""

\* C1: get_aad_profile accepts the resulting triple if and only if its three
\* fields are all non-empty or all empty, raises for every other combination
\* (such as server empty, client and tenant non-empty), and returns
\* aad_enabled true exactly when all three are non-empty.
C1_AcceptsIffAllOrNone ==
    aadOut.applied =>
        /\ ~aadOut.raised <=>
               (AllNonEmpty(ResultingTriple) \/ NoAppIds(ResultingTriple))
        /\ ~aadOut.raised =>
               (aadOut.aad_enabled <=> AllNonEmpty(ResultingTriple))

(***************************************************************************)
(* Claims about create_connectedk8s and delete_connectedk8s (Spec)         *)
(***************************************************************************)
\* The calls that change the cluster or the control plane.
Mutating == {"PUT", "DELETE", "helm_delete", "helm_install", "rg_create"}
NoMutatingCall == \A i \in 1..Len(calls) : calls[i].kind \notin Mutating

\* The get of (rg, name) answered with the resource / with 'not found'.
GetFound(rg, name) ==
    \E i \in 1..Len(calls) :
        /\ calls[i].kind = "GET" /\ calls[i].ok
        /\ Key(calls[i].rg, calls[i].name) = Key(rg, name)
PutIssued(rg, name) ==
    \E i \in 1..Len(calls) :
        /\ calls[i].kind = "PUT"
        /\ Key(calls[i].rg, calls[i].name) = Key(rg, name)

\* create has read the config-map of an existing release.
ReadRecorded ==
    /\ op = "create"
    /\ Truthy(lv.release_namespace)
    /\ lv.configmap_rg_name # ""
RecordedDiffers ==
    Key(lv.configmap_rg_name, lv.configmap_cluster_name)
        # Key(args.rg, args.name)
RecordedMissing == lv.recorded_exists = "false"

FollowsCreate == prev # NoPrev
ReRegistration ==
    /\ ReadRecorded /\ ~RecordedDiffers
    /\ GetFound(lv.configmap_rg_name, lv.configmap_cluster_name)

\* C3: a successful create leaves the release, a config-map recording the
\* created identity and the remote resource; a create that finds this state
\* for its own identity (names compared case-insensitively) never fails with
\* 'resource already exists', and unless reading the existing resource fails
\* it issues a PUT for that identity.
C3_ReCreateIsNotAlreadyExists ==
    /\ (FollowsCreate /\ pc \in {"c_start", "d_load"}) =>
           /\ release = "azure-arc"
           /\ configmap = ConfigMap(prev.rg, prev.name)
           /\ remote[Key(prev.rg, prev.name)].present
    /\ ReRegistration =>
           /\ result # "ResourceAlreadyExists"
           /\ pc = "done" =>
                  (result = "GetFault" \/ PutIssued(args.rg, args.name))

C3_Witness ==
    /\ op = "create" /\ FollowsCreate
    /\ Key(prev.rg, prev.name) = Key(args.rg, args.name)
    /\ prev.rg # args.rg
    /\ ReRegistration
    /\ pc = "done" /\ result = "ok"
    /\ PutIssued(args.rg, args.name)

\* create has fetched the certificate of the existing resource (line 213).
FetchedCert == op = "create" /\ lv.fetched_key # NoKey

\* C4: on the re-registration path the fetched certificate is PUT again, and
\* the certificate stored remotely when create returns is the fetched one,
\* not a newly generated one.
C4_ReRegistrationKeepsFetchedCert ==
    FetchedCert =>
        /\ pc # "c_reput" =>
               \E i \in CallsOf("PUT") : calls[i].cc.cert = lv.fetched_key
        /\ (pc = "done" /\ result = "ok") =>
               remote[Key(args.rg, args.name)].cert = lv.fetched_key

\* C5: when create finds no release and the get of the requested identity
\* answers with the resource, it fails with 'resource already exists' and
\* has created no resource group, PUT nothing, generated no key pair and
\* installed nothing.
C5_ExistingResourceRefused ==
    (op = "create" /\ lv.release_namespace = None
                   /\ GetFound(args.rg, args.name)) =>
        /\ pc = "done" /\ result = "ResourceAlreadyExists"
        /\ \A i \in 1..Len(calls) :
               calls[i].kind \notin
                   {"rg_create", "PUT", "keygen", "helm_install"}

C5_Witness ==
    /\ op = "create" /\ lv.release_namespace = None
    /\ GetFound(args.rg, args.name)
    /\ remote[Key(args.rg, args.name)].present
    /\ result = "ResourceAlreadyExists"

\* The calls of the invocation other than reads, and their kinds.
Steps == SelectSeq(calls, LAMBDA c : c.kind # "GET")
Kinds(seq) == [i \in 1..Len(seq) |-> seq[i].kind]

\* create found no release and no resource of the requested identity.
Fresh ==
    /\ op = "create"
    /\ lv.release_namespace = None
    /\ lv.requested_exists = "false"
FreshOrder ==
    (IF HasCall("rg_create") THEN <<"rg_create">> ELSE <<>>)
        \o <<"keygen", "PUT", "helm_install">>

UniqueFile(f) == \A key \in MergeKeys : UniqueNames(f[key].items)
\* The running merge has its documents loaded.
Loaded == mpc \notin {"off", "idle", "m_load"} /\ ~mlv.addition.isNone
\* The addition, as renamed, holds under `key` an entry whose name an entry
\* of the file has with another content.
Conflicting(key) ==
    \E k \in 1..Len(mlv.addition[key].items),
       m \in 1..Len(kstart[key].items) :
        /\ mlv.addition[key].items[k].name = kstart[key].items[m].name
        /\ mlv.addition[key].items[k] # kstart[key].items[m]

SecondMergeDone ==
    /\ mpc = "done" /\ mres = "ok"
    /\ margs.replace /\ mlv.round = 2

\* C8: after the second merge of one fragment with replace true, each list
\* of the file holds one entry per name and the file is what the first
\* merge left.
C8_SecondMergeChangesNothing ==
    SecondMergeDone => (kfile = kstart /\ UniqueFile(kfile))

\* What does hold of the second merge: the content of the file.
SecondMergeSameFile ==
    SecondMergeDone => kfile = kstart

MergedFrom(key) ==
    \A k \in 1..Len(kfile[key].items) :
        \/ \E m \in 1..Len(kstart[key].items) :
               kfile[key].items[k] = kstart[key].items[m]
        \/ \E m \in 1..Len(mlv.addition[key].items) :
               kfile[key].items[k] = mlv.addition[key].items[m]
Untouched(key) ==
    \A m \in 1..Len(kstart[key].items) :
        kstart[key].items[m].name \notin NamesOf(mlv.addition[key].items) =>
            \E k \in 1..Len(kfile[key].items) :
                kfile[key].items[k] = kstart[key].items[m]
SuccessfulMerge == mpc = "done" /\ mres = "ok" /\ UniqueFile(kstart)

\* C9: a successful merge into a file whose lists have unique names keeps
\* every entry whose name the addition (as renamed) does not hold, adds
\* nothing but entries of the addition, and leaves names unique in each list.
C9_UnrelatedKeptNamesUnique ==
    SuccessfulMerge =>
        \A key \in MergeKeys :
            /\ Untouched(key)
            /\ MergedFrom(key)
            /\ UniqueNames(kfile[key].items)

\* What does hold of every successful merge: unrelated entries are kept,
\* and names stay unique when the renaming has left them unique in the
\* addition.
UnrelatedKept ==
    SuccessfulMerge =>
        \A key \in MergeKeys :
            /\ Untouched(key)
            /\ MergedFrom(key)
            /\ UniqueNames(mlv.addition[key].items) =>
                   UniqueNames(kfile[key].items)

\* C10: when the server address of the selected context contains
\* '.k8sconnect.azure.', delete_connectedk8s ends with an error before any
\* helm command and before any remote delete: it has issued no call.
C10_ProxyKubeconfigRefused ==
    (op = "delete" /\ Contains(lv.server_address, ProxyMarker)) =>
        /\ pc = "done" /\ result = "ProxyKubeconfig"
        /\ calls = <<>>

C10_Witness ==
    /\ op = "delete" /\ lv.server_address = ServerProxy
    /\ result = "ProxyKubeconfig"
    /\ release = "azure-arc"
    /\ remote[Key(args.rg, args.name)].present

\* delete has read a config-map that records another identity than the
\* requested one.
DeleteRecordedDiffers ==
    /\ op = "delete" /\ lv.release_namespace = "azure-arc"
    /\ lv.configmap_rg_name # ""
    /\ Key(lv.configmap_rg_name, lv.configmap_cluster_name)
           # Key(args.rg, args.name)

\* C11: delete_connectedk8s issues a remote delete only of the requested
\* resource, and only once it has seen that no release exists or that the
\* config-map records the requested identity (case-insensitively); when a
\* release exists and the recorded identity differs it ends with an error
\* and has issued neither a remote delete nor a helm delete.
C11_RemoteDeleteOnlyWhenConsistent ==
    op = "delete" =>
        /\ \A i \in CallsOf("DELETE") :
              /\ calls[i].rg = args.rg /\ calls[i].name = args.name
              /\ \/ lv.release_namespace = None
                 \/ /\ lv.release_namespace = "azure-arc"
                    /\ lv.configmap_rg_name # ""
                    /\ Key(lv.configmap_rg_name, lv.configmap_cluster_name)
                           = Key(args.rg, args.name)
        /\ DeleteRecordedDiffers =>
              /\ calls = <<>>
              /\ pc \in {"d_match", "done"}
              /\ pc = "done" => result = "BadDeleteRequest"

C11_Witness ==
    /\ DeleteRecordedDiffers
    /\ lower(lv.configmap_cluster_name) = lower(args.name)
    /\ pc = "done" /\ result = "BadDeleteRequest"
    /\ remote[Key(args.rg, args.name)].present
    /\ release = "azure-arc"

\* The helm client version read by create or update is one the gate names.
HelmRejected ==
    /\ op \in {"create", "update"}
    /\ lv.helm_version # <<>>
    /\ \/ Contains(lv.helm_version, <<"v", "2">>)
       \/ Contains(lv.helm_version, <<"3", ".", "3", ".", "0", "-", "r", "c">>)

\* C12: in create_connectedk8s and update_agents, a helm client version
\* output containing 'v2' or '3.3.0-rc' ends the operation with an error;
\* no helm install, no helm upgrade, no resource-group creation and no PUT
\* has been issued, and the world is as the operation found it.
C12_VersionGate ==
    HelmRejected =>
        /\ pc = "done"
        /\ result \in {"HelmV2", "HelmPreRelease"}
        /\ \A i \in 1..Len(calls) :
               calls[i].kind \notin
                   {"helm_install", "helm_upgrade", "rg_create", "PUT"}

C12_Witness ==
    /\ HelmRejected /\ op = "update"
    /\ lv.helm_version = HelmRC
    /\ result = "HelmPreRelease"
    /\ release = "azure-arc"
    /\ remote[Key(args.rg, args.name)].present

\* Number of ',' and '/' among the first i characters of s.
Specials(s, i) == Cardinality({k \in 1..i : s[k] \in {",", "/"}})
GlobalKey(key) == CASE key = "https" -> "global.httpsProxy="
                    [] key = "http"  -> "global.httpProxy="
                    [] key = "no"    -> "global.noProxy="

\* C13: escape_proxy_settings returns "" for None and otherwise the input
\* with one backslash put before each ',' and each '/', every character of
\* the input kept in order (length = input length + number of ',' and '/');
\* a non-empty escaped value reaches helm install whole, as the one argument
\* 'global.<key>=<value>' that follows '--set'.
C13_EscapeProxySettings ==
    fnOut.applied =>
        LET s == fnIn.setting
            e == fnOut.escaped
        IN /\ s = NoneSetting => e = <<>>
           /\ s # NoneSetting =>
                 /\ Len(e) = Len(s) + Specials(s, Len(s))
                 /\ \A i \in 1..Len(s) :
                       /\ e[i + Specials(s, i)] = s[i]
                       /\ s[i] \in {",", "/"} =>
                              e[i + Specials(s, i) - 1] = "\\"
           /\ e # <<>> =>
                 /\ fnOut.argv[1] = Arg("--set")
                 /\ fnOut.argv[2] = <<GlobalKey(fnIn.key)>> \o e
           /\ e = <<>> => fnOut.argv = <<>>

C13_Witness ==
    /\ fnOut.applied
    /\ fnIn.setting = <<"/", "\\", ",">>
    /\ fnOut.escaped = <<"\\", "/", "\\", "\\", ",">>
    /\ fnOut.argv[2] = <<"global.noProxy=", "\\", "/", "\\", "\\", ",">>

\* The rules of get_kubernetes_distro in their order, on a node.
DistroRules ==
    <<"openshift", "aks", "gke", "eks", "minikube", "kind", "k3s",
      "rancher_rke">>
HasLabel(node, k) == ~node.labelsNone /\ node.labels[k] \notin {None, ""}
HasAnnotation(node, k) ==
    ~node.annotationsNone /\ node.annotations[k] # None
BeginsWith(s, p) ==
    Len(s) >= Len(p) /\ \A i \in 1..Len(p) : s[i] = p[i]
RuleMatches(r, node) ==
    CASE r = 1 -> HasLabel(node, "node.openshift.io/os_id")
      [] r = 2 -> HasLabel(node, "kubernetes.azure.com/node-image-version")
      [] r = 3 -> \/ HasLabel(node, "cloud.google.com/gke-nodepool")
                  \/ HasLabel(node, "cloud.google.com/gke-os-distribution")
      [] r = 4 -> HasLabel(node, "eks.amazonaws.com/nodegroup")
      [] r = 5 -> HasLabel(node, "minikube.k8s.io/version")
      [] r = 6 -> BeginsWith(node.provider_id, KindPrefix)
      [] r = 7 -> BeginsWith(node.provider_id, K3sPrefix)
      [] r = 8 -> \/ HasAnnotation(node, "rke.cattle.io/external-ip")
                  \/ HasAnnotation(node, "rke.cattle.io/internal-ip")
FirstNode == fnIn.items[1]

\* C14: get_kubernetes_distro never raises; it answers from the first node
\* alone: a distribution is returned only if its rule matches the first
\* node and no earlier rule does, and when the first node has labels and
\* annotations the earliest matching rule gives the answer; 'generic' is
\* returned when no rule matches (a moc:// provider id included), when the
\* node list is empty and when the query or the inspection raises.
C14_DistroPriority ==
    fnOut.applied =>
        /\ ~fnOut.raised
        /\ fnOut.value \in {DistroRules[r] : r \in 1..8} \cup {"generic"}
        /\ (fnIn.raised \/ fnIn.items = <<>>) => fnOut.value = "generic"
        /\ \A r \in 1..8 :
              (fnOut.value = DistroRules[r] /\ fnIn.items # <<>>) =>
                  /\ RuleMatches(r, FirstNode)
                  /\ \A q \in 1..(r - 1) : ~RuleMatches(q, FirstNode)
        /\ (~fnIn.raised /\ fnIn.items # <<>>) =>
              /\ (\A r \in 1..8 : ~RuleMatches(r, FirstNode)) =>
                     fnOut.value = "generic"
              /\ FirstNode.labelsNone => fnOut.value = "generic"
              /\ (~FirstNode.labelsNone /\ ~FirstNode.annotationsNone) =>
                     \A r \in 1..8 :
                         (/\ RuleMatches(r, FirstNode)
                          /\ \A q \in 1..(r - 1) : ~RuleMatches(q, FirstNode))
                             => fnOut.value = DistroRules[r]

C14_Witness ==
    /\ fnOut.applied /\ Len(fnIn.items) = 2
    /\ ~RuleMatches(1, FirstNode)
    /\ RuleMatches(2, FirstNode) /\ RuleMatches(4, FirstNode)
    /\ RuleMatches(6, FirstNode) /\ RuleMatches(8, FirstNode)
    /\ fnOut.value = "aks"

\* The request of update_agents is contradictory or empty.
AnyProxyGiven ==
    \/ args.https_proxy # <<>> \/ args.http_proxy # <<>>
    \/ args.no_proxy # <<>> \/ args.proxy_cert # <<>>
UpdateInputRejected ==
    /\ op = "update"
    /\ \/ args.disable_proxy /\ AnyProxyGiven
       \/ ~args.disable_proxy /\ ~AnyProxyGiven

\* C15: update_agents given disable_proxy together with any of https_proxy,
\* http_proxy, no_proxy, proxy_cert, or given none of the five, never gets
\* past its input check: it ends with an error of that check (no parameter,
\* conflict, or the certificate path that does not exist), the kubeconfig
\* is not loaded, no helm command is run and no control-plane call is made.
C15_UpdateRejectsBadInput ==
    UpdateInputRejected =>
        /\ pc \in {"u_start", "done"}
        /\ pc = "done" =>
               result \in {"NoParam", "EnableProxyConflict",
                           "ProxyCertPathFault"}
        /\ calls = <<>>
        /\ lv.helm_version = <<>>
        /\ lv.cmd_helm_upgrade = <<>>

C15_Witness ==
    /\ UpdateInputRejected /\ pc = "done"
    /\ args.disable_proxy /\ args.https_proxy = ProxyUrl
    /\ args.proxy_cert = <<>>
    /\ result = "EnableProxyConflict"
    /\ release = "azure-arc"

C15_WitnessEmpty ==
    UpdateInputRejected /\ pc = "done" /\ result = "NoParam"

\* C16, as stated for the wait: between two consecutive checks of the
\* namespace the poll waits 5 seconds.
C16_WaitsBetweenChecks ==
    poll # <<>> /\ poll.queries >= 2 => poll.waited >= SleepSeconds

\* C16, the parts that hold: the namespace is queried only after helm delete
\* exited with 0, a non-zero exit code raises without a query, and the poll
\* itself ends without raising, having logged a warning when the deadline
\* passed or a query failed.
C16_PollOnlyAfterDelete ==
    poll # <<>> =>
        /\ poll.result = "HelmDeleteFault" => poll.queries = 0
        /\ poll.queries > 0 => poll.result \in {None, "ok"}
        /\ poll.pc = "p_done" =>
               poll.result \in {"ok", "HelmDeleteFault"}
        /\ (poll.pc = "p_done" /\ poll.result = "ok" /\ ~poll.warned) =>
               ~nsPresent
        /\ now <= poll.timeout + SleepSeconds + 1

\* C16, termination: delete_arc_agents always comes to an end.
C16_PollTerminates == <>(poll # <<>> /\ poll.pc = "p_done")

\* Two checks with no wait between them: the first one failed.
C16_BusyRetry ==
    /\ poll # <<>> /\ poll.queries >= 2 /\ poll.waited = 0
    /\ poll.warned

\* The steps that evaluate connected_cluster_exists, the identity each one
\* asks for, and where each one keeps the answer.
ExistsSites == {"c_recorded", "c_exists", "u_exists"}
ExistsKey ==
    IF pc = "c_recorded"
    THEN Key(lv.configmap_rg_name, lv.configmap_cluster_name)
    ELSE Key(args.rg, args.name)
ExistsAnswer(l) ==
    IF pc = "c_recorded" THEN l.recorded_exists ELSE l.requested_exists

\* What a step that evaluates connected_cluster_exists does.
ExistsStep ==
    pc \in ExistsSites =>
          LET c == calls'[Len(calls')] IN
          /\ Len(calls') = Len(calls) + 1
          /\ SubSeq(calls', 1, Len(calls)) = calls
          /\ c.kind = "GET"
          /\ Key(c.rg, c.name) = ExistsKey
          /\ worldVars' = worldVars
          /\ c.ok => /\ ExistsAnswer(lv') = "true"
                     /\ remote[ExistsKey].present
                     /\ result' # "GetFault"
          /\ ~c.ok => \/ /\ ExistsAnswer(lv') = "false"
                         /\ ~remote[ExistsKey].present
                         /\ result' # "GetFault"
                      \/ /\ result' = "GetFault"
                         /\ pc' = "done"
                         /\ lv' = lv

\* C17: every evaluation of connected_cluster_exists issues exactly one
\* call, a get of the identity asked for, and changes nothing in the
\* cluster, the control plane or the resource groups; the answer is true
\* when the get succeeds, false when it fails because the resource does not
\* exist, and any other failure ends the operation with the get's error.
C17_ExistsIsOneGet == [][ExistsStep]_vars

C17_Witness ==
    /\ op = "update" /\ pc = "done" /\ result = "ResourceDoesNotExist"
    /\ lv.requested_exists = "false"
    /\ Len(calls) = 1 /\ calls[1].kind = "GET" /\ ~calls[1].ok
    /\ release = "azure-arc"

\* The calls of this invocation that leave the machine for the control
\* plane.
ControlPlaneKinds == {"GET", "PUT", "DELETE", "rg_create"}

\* C18: in create_connectedk8s the private key of the generated pair is
\* handed to helm install and to nothing else: no control-plane call
\* carries a private key in its payload or otherwise, the control plane
\* never stores one and the handler never returns one; every PUT issued
\* after the pair was generated carries the public key of that pair, and
\* the helm install carries its private key.
C18_PrivateKeyOnlyToHelmInstall ==
    op = "create" =>
        /\ \A i \in 1..Len(calls) :
              /\ calls[i].kind \in ControlPlaneKinds =>
                     /\ ~IsPrivateKey(calls[i].key)
                     /\ ~IsPrivateKey(calls[i].cc.cert)
              /\ IsPrivateKey(calls[i].key) /\ calls[i].kind # "keygen" =>
                     calls[i].kind = "helm_install"
              /\ \A j \in 1..(i - 1) :
                     calls[j].kind = "keygen" =>
                         /\ calls[i].kind = "PUT" =>
                                calls[i].cc.cert = get_public_key(calls[j].key)
                         /\ calls[i].kind = "helm_install" =>
                                calls[i].key = get_private_key(calls[j].key)
              /\ calls[i].kind = "helm_install" =>
                     \E j \in 1..(i - 1) : calls[j].kind = "keygen"
        /\ \A k \in DOMAIN remote : ~IsPrivateKey(remote[k].cert)
        /\ ~IsPrivateKey(lv.returned.cc.cert)
        /\ ~IsPrivateKey(lv.put_cc_response.cc.cert)

C18_Witness ==
    /\ op = "create" /\ pc = "done" /\ result = "ok"
    /\ \E i, j, h \in 1..Len(calls) :
          /\ i < j /\ j < h
          /\ calls[i].kind = "keygen"
          /\ calls[j].kind = "PUT" /\ calls[j].ok
          /\ calls[j].cc.cert = get_public_key(calls[i].key)
          /\ calls[h].kind = "helm_install" /\ calls[h].ok
          /\ calls[h].key = get_private_key(calls[i].key)
          /\ remote[Key(args.rg, args.name)].cert = calls[j].cc.cert

\* The entries of process p's fragment, as merged, are in the file.
InFile(p) ==
    /\ ~kfile.isNone
    /\ \A key \in MergeKeys :
          \A k \in 1..Len(cm[p].addition[key].items) :
              \E m \in 1..Len(kfile[key].items) :
                  kfile[key].items[m] = cm[p].addition[key].items[k]
BothMerged == \A p \in Procs : cm[p].pc = "done" /\ cm[p].result = "ok"
OneAfterTheOther == order \in {<<1, 1, 2, 2>>, <<2, 2, 1, 1>>}

\* C19: nothing but the file is shared between two merges and no lock is
\* taken; when one merge loads the file only after the other has written
\* it and both succeed, the file holds the entries of both fragments.  (A
\* run whose loads and writes interleave and which loses the entries one
\* merge wrote is C19_Witness.)
C19_SequentialMergesKeepBoth ==
    (cm # <<>> /\ BothMerged /\ OneAfterTheOther) =>
        \A p \in Procs : InFile(p)

C19_Witness ==
    /\ cm # <<>> /\ BothMerged
    /\ order = <<1, 2, 1, 2>>
    /\ ~InFile(1) /\ InFile(2)

C19_WitnessSequential ==
    /\ cm # <<>> /\ BothMerged /\ OneAfterTheOther
    /\ \A p \in Procs : InFile(p)
    /\ ~kfile.isNone

\* delete_connectedk8s found a release whose config-map records the
\* requested identity.
DeleteRecordedMatches ==
    /\ op = "delete" /\ lv.release_namespace = "azure-arc"
    /\ lv.configmap_rg_name # ""
    /\ IdentityMatches(lv.configmap_rg_name, lv.configmap_cluster_name,
                       args.rg, args.name)

\* C20, as stated: when the release exists and its recorded identity matches
\* the request, the remote DELETE is issued only after a helm delete that
\* succeeded, so a delete that ends with a failed helm delete has not
\* deleted the remote resource.
C20_HelmDeleteBeforeRemoteDelete ==
    DeleteRecordedMatches =>
        /\ \A i \in CallsOf("DELETE") :
              \E j \in 1..(i - 1) :
                  calls[j].kind = "helm_delete" /\ calls[j].ok
        /\ (pc = "done" /\ result = "HelmDeleteFault") =>
              \A i \in CallsOf("DELETE") : ~calls[i].ok

\* What the code does instead: the remote resource is deleted, then helm
\* delete fails, and the agents stay installed without their resource.
C20_RemoteGoneAgentsInstalled ==
    /\ DeleteRecordedMatches /\ pc = "done" /\ result = "HelmDeleteFault"
    /\ Len(calls) = 2
    /\ calls[1].kind = "DELETE" /\ calls[1].ok
    /\ calls[2].kind = "helm_delete" /\ ~calls[2].ok
    /\ ~remote[Key(args.rg, args.name)].present
    /\ release = "azure-arc"

\* The external calls of create_connectedk8s that change something.
FailedMutation(i) ==
    calls[i].kind \in {"PUT", "rg_create", "helm_install"} /\ ~calls[i].ok

\* C21: in create_connectedk8s a failed PUT, resource-group creation or
\* helm install is the last call of the invocation, which ends with that
\* call's error (no retry); and once the resource group has been created
\* or the connected cluster has been PUT, no remote delete, resource-group
\* delete or helm delete follows, and what was created stays (no rollback).
C21_NoRollbackNoRetry ==
    op = "create" =>
        \A i \in 1..Len(calls) :
            /\ FailedMutation(i) =>
                  /\ i = Len(calls)
                  /\ pc = "done"
                  /\ result \in {"PutFault", "RgCreateFault",
                                 "HelmInstallFault"}
            /\ (calls[i].kind \in {"PUT", "rg_create"} /\ calls[i].ok) =>
                  /\ \A j \in (i + 1)..Len(calls) :
                        calls[j].kind \notin
                            {"DELETE", "rg_delete", "helm_delete"}
                  /\ lower(args.rg) \in rgs
                  /\ calls[i].kind = "PUT" =>
                        remote[Key(args.rg, args.name)].present

C21_Witness ==
    /\ op = "create" /\ pc = "done" /\ result = "HelmInstallFault"
    /\ \E i, j \in 1..Len(calls) :
          /\ i < j
          /\ calls[i].kind = "rg_create" /\ calls[i].ok
          /\ calls[j].kind = "PUT" /\ calls[j].ok
    /\ FailedMutation(Len(calls))
    /\ remote[Key(args.rg, args.name)].present
    /\ release = None

\* C22, as stated: the helm install of create_connectedk8s and the helm
\* upgrade of update_agents carry '--wait' exactly when no_wait is false.
C22_WaitIffNotNoWait ==
    \A i \in 1..Len(calls) :
        calls[i].kind \in {"helm_install", "helm_upgrade"} =>
            (calls[i].wait <=> ~args.no_wait)

\* C22, the half that holds: the helm install carries '--wait' exactly
\* when no_wait is false.
C22_InstallWaitIffNotNoWait ==
    \A i \in 1..Len(calls) :
        calls[i].kind = "helm_install" => (calls[i].wait <=> ~args.no_wait)

\* update_agents called with no_wait runs helm upgrade with '--wait'.
C22_UpgradeWaitsAnyway ==
    /\ op = "update" /\ args.no_wait
    /\ HasArg(lv.cmd_helm_upgrade, Arg("--wait"))
    /\ \E i \in 1..Len(calls) : calls[i].kind = "helm_upgrade" /\ calls[i].wait

\* The argument vector sets `key` (to anything), and what it sets it to.
SetsKey(cmd, key) == \E i \in 1..Len(cmd) : cmd[i][1] = key
ValueOf(cmd, key) ==
    LET i == CHOOSE i \in 1..Len(cmd) : cmd[i][1] = key IN Tail(cmd[i])
Given(setting) == setting \notin {NoneSetting, <<>>}
ProxyEnabled(cmd) == HasArg(cmd, <<"global.isProxyEnabled=", "True">>)
ProxyDisabled(cmd) == HasArg(cmd, <<"global.isProxyEnabled=", "False">>)
\* Each proxy key of `cmd` is set exactly when its input is given.
ProxyKeysFollowInputs(cmd) ==
    /\ SetsKey(cmd, "global.httpsProxy=") <=> Given(fnIn.https_proxy)
    /\ SetsKey(cmd, "global.httpProxy=") <=> Given(fnIn.http_proxy)
    /\ SetsKey(cmd, "global.noProxy=") <=> Given(fnIn.no_proxy)
    /\ SetsKey(cmd, "global.proxyCert=") <=> Given(fnIn.proxy_cert)
    /\ Given(fnIn.https_proxy) =>
           ValueOf(cmd, "global.httpsProxy=")
               = escape_proxy_settings(fnIn.https_proxy)
UpgradeBuilt == fnOut.applied /\ fnOut.gate = "ok"

\* C23, as stated: global.isProxyEnabled=True is set exactly when at least
\* one of the supplied proxy settings (https_proxy, http_proxy, no_proxy,
\* proxy_cert) is non-empty.
C23_EnabledIffAnySettingGiven ==
    fnOut.applied =>
        (ProxyEnabled(fnOut.cmd_helm_install) <=>
            (\/ Given(fnIn.https_proxy) \/ Given(fnIn.http_proxy)
             \/ Given(fnIn.no_proxy) \/ Given(fnIn.proxy_cert)))

\* C23, amended: in the helm install and helm upgrade argument lists each
\* of the four proxy keys is set exactly when its input is non-empty;
\* global.isProxyEnabled=True is set exactly when at least one of
\* https_proxy, http_proxy, no_proxy is non-empty (a proxy certificate
\* alone does not set it); the upgrade command never holds both
\* global.isProxyEnabled=True and global.isProxyEnabled=False.
C23_ProxyArgsFollowInputs ==
    fnOut.applied =>
        LET any == \/ Given(fnIn.https_proxy) \/ Given(fnIn.http_proxy)
                   \/ Given(fnIn.no_proxy)
        IN /\ ProxyKeysFollowInputs(fnOut.cmd_helm_install)
           /\ ProxyEnabled(fnOut.cmd_helm_install) <=> any
           /\ ~ProxyDisabled(fnOut.cmd_helm_install)
           /\ UpgradeBuilt =>
                 /\ ProxyKeysFollowInputs(fnOut.cmd_helm_upgrade)
                 /\ ProxyEnabled(fnOut.cmd_helm_upgrade) <=> any
                 /\ ProxyDisabled(fnOut.cmd_helm_upgrade)
                        <=> fnIn.disable_proxy
                 /\ ~(ProxyEnabled(fnOut.cmd_helm_upgrade)
                      /\ ProxyDisabled(fnOut.cmd_helm_upgrade))

C23_Witness ==
    /\ UpgradeBuilt
    /\ Given(fnIn.proxy_cert) /\ ~Given(fnIn.https_proxy)
    /\ ~Given(fnIn.http_proxy) /\ ~Given(fnIn.no_proxy)
    /\ SetsKey(fnOut.cmd_helm_install, "global.proxyCert=")
    /\ SetsKey(fnOut.cmd_helm_upgrade, "global.proxyCert=")
    /\ ~ProxyEnabled(fnOut.cmd_helm_install)
    /\ ~ProxyEnabled(fnOut.cmd_helm_upgrade)

\* Of the two AAD app ids of the request, one is given and non-empty, the
\* other is missing or empty.
OneAadIdGiven ==
    Truthy(args.aad_server_app_id) # Truthy(args.aad_client_app_id)
PartialAad(aad) == (aad.server = "") # (aad.client = "")

\* C24, as stated: a create_connectedk8s given one AAD app id without the
\* other fails before any resource-group creation, PUT or helm install,
\* and no PUT carries an AAD profile with one app id filled and the other
\* empty.
C24_IncompleteAadRejected ==
    op = "create" =>
        /\ OneAadIdGiven =>
              /\ \A i \in 1..Len(calls) :
                    calls[i].kind \notin {"rg_create", "PUT", "helm_install"}
              /\ pc = "done" => result # "ok"
        /\ \A i \in 1..Len(calls) :
              calls[i].kind = "PUT" => ~PartialAad(calls[i].cc.aad)

\* C24, what holds: when one id is not given at all (None) and the other
\* is, the call ends with the error of line 69 before any external call.
C24_MissingIdRejected ==
    (/\ op = "create"
     /\ IncompleteAadArgs(args.aad_server_app_id, args.aad_client_app_id)) =>
        /\ calls = <<>>
        /\ pc \in {"c_start", "done"}
        /\ pc = "done" => result = "IncompleteAAD"

\* A connected cluster with a client app id and no server app id is PUT.
C24_PartialProfilePut ==
    /\ op = "create" /\ OneAadIdGiven
    /\ args.aad_server_app_id = "" /\ args.aad_client_app_id = "app1"
    /\ \E i \in 1..Len(calls) :
          /\ calls[i].kind = "PUT" /\ calls[i].ok
          /\ calls[i].cc.aad.server = "" /\ calls[i].cc.aad.client = "app1"

(***************************************************************************)
(* C25                                                                     *)
(***************************************************************************)
\* print_or_merge_credentials has left its try statement.
CredsEnded == fnOut.pc \in {"p_end", "done"}

\* C25: when print_or_merge_credentials has ended, by a successful merge,
\* a merge conflict, a document that does not load (a YAML error of the
\* fragment included) or any other error, no temp file made by it exists.
C25_TempFileRemoved == CredsEnded => fnOut.temps = {}

\* The merge was declined on a conflict after the temp file was made, and
\* the temp file is gone.
C25_Witness ==
    /\ fnOut.pc = "done" /\ fnOut.result = "Conflict"
    /\ fnIn.path # "-" /\ fnOut.temps = {}

\* The fragment did not parse, and the temp file is gone.
C25_WitnessYaml ==
    /\ fnOut.pc = "done" /\ fnOut.result = "LoadFault"
    /\ ~fnOut.kubeconfig.parses /\ fnOut.temps = {}

(***************************************************************************)
(* C26                                                                     *)
(***************************************************************************)
\* A merge into a kubeconfig that was not empty has been written, and the
\* fragment holds a context.
MergedIntoNonEmpty ==
    /\ mpc = "done" /\ mres = "ok"
    /\ ~kstart.isNone
    /\ margs.addition.contexts.items # <<>>
AdditionIsAdmin ==
    startswith(margs.addition.contexts.items[1].context.user, AdminPrefix)
\* The name the fragment's context goes by before the admin suffix.
BaseName ==
    IF margs.context_name = NoneName
    THEN margs.addition.contexts.items[1].name
    ELSE margs.context_name
RenamedName == IF AdditionIsAdmin THEN BaseName \o AdminSuffix ELSE BaseName

\* C26: after a successful merge into a non-empty kubeconfig the file's
\* current-context is the fragment's context name after renaming (the
\* caller's context_name when given, with '-admin' appended when the
\* context's user starts with 'clusterAdmin'), the file's contexts hold a
\* context of exactly that name, and a context the file held under the
\* un-suffixed name is still there when the fragment's context is an admin
\* context.
C26_CurrentContextAfterRename ==
    MergedIntoNonEmpty =>
        /\ kfile.current = RenamedName
        /\ \E k \in 1..Len(kfile.contexts.items) :
              kfile.contexts.items[k].name = RenamedName
        /\ (AdditionIsAdmin /\ ~kstart.contexts.isNone) =>
              \A k \in 1..Len(kstart.contexts.items) :
                  kstart.contexts.items[k].name = BaseName =>
                      \E m \in 1..Len(kfile.contexts.items) :
                          kfile.contexts.items[m] = kstart.contexts.items[k]

\* An admin context named a was merged into a file that held a user
\* context named a: the file now holds both, and a-admin is current.
C26_Witness ==
    /\ MergedIntoNonEmpty /\ AdditionIsAdmin
    /\ margs.context_name = NoneName
    /\ ~kstart.contexts.isNone
    /\ \E k \in 1..Len(kstart.contexts.items) :
          kstart.contexts.items[k].name = A
    /\ kfile.current = A \o AdminSuffix
    /\ \E k \in 1..Len(kfile.contexts.items) :
          /\ kfile.contexts.items[k].name = A
          /\ kfile.contexts.items[k].context.user = UserPlain

\* The same with the caller's context name b.
C26_WitnessNamed ==
    /\ MergedIntoNonEmpty /\ AdditionIsAdmin
    /\ margs.context_name = B
    /\ kfile.current = B \o AdminSuffix

(***************************************************************************)
(* C27                                                                     *)
(***************************************************************************)
\* The PUTs for the requested identity issued before call i.
RequestedPutsBefore(i) ==
    {j \in 1..(i - 1) : /\ calls[j].kind = "PUT"
                        /\ Key(calls[j].rg, calls[j].name)
                              = Key(args.rg, args.name)}
LastOf(S) == CHOOSE j \in S : \A m \in S : m <= j
SamePair(cert, private_key) ==
    /\ IsPublicKey(cert) /\ IsPrivateKey(private_key)
    /\ PairOf(cert) = PairOf(private_key)
    /\ \E g \in CallsOf("keygen") : calls[g].key = PairOf(cert)

\* C27: whenever create runs helm install, a PUT for the requested
\* identity came before it, and the certificate of the last such PUT and
\* the private key given to helm install are the two halves of one key
\* pair generated in this invocation.
C27_InstallKeyMatchesLastPut ==
    op = "create" =>
        \A i \in CallsOf("helm_install") :
            /\ RequestedPutsBefore(i) # {}
            /\ SamePair(calls[LastOf(RequestedPutsBefore(i))].cc.cert,
                        calls[i].key)

\* Re-registration: the first PUT carried the fetched certificate, the
\* second the new one, and helm install got the new private key.
C27_Witness ==
    /\ op = "create" /\ pc = "done" /\ result = "ok"
    /\ \E i \in CallsOf("helm_install") :
          /\ Cardinality(RequestedPutsBefore(i)) = 2
          /\ \E j \in RequestedPutsBefore(i) :
                calls[j].cc.cert # calls[LastOf(RequestedPutsBefore(i))].cc.cert

\* Onboarding after the agents of a stale release were removed.
C27_WitnessStale ==
    /\ op = "create" /\ pc = "done" /\ result = "ok"
    /\ HasCall("helm_delete") /\ HasCall("helm_install")

\* Fresh onboarding: one PUT, no release before.
C27_WitnessFresh ==
    /\ op = "create" /\ pc = "done" /\ result = "ok"
    /\ ~HasCall("helm_delete")
    /\ \E i \in CallsOf("helm_install") :
          Cardinality(RequestedPutsBefore(i)) = 1

(***************************************************************************)
(* C28                                                                     *)
(***************************************************************************)
\* This step of create is a PUT, and the resource of the requested
\* identity exists as the PUT is issued.
PutOverExisting ==
    /\ op = "create"
    /\ Len(calls') = Len(calls) + 1
    /\ calls'[Len(calls')].kind = "PUT"
    /\ remote[Key(args.rg, args.name)].present
\* The config-map of the local release records the requested identity.
RecordsRequested ==
    /\ Truthy(lv.release_namespace)
    /\ IdentityMatches(lv.configmap_rg_name, lv.configmap_cluster_name,
                       args.rg, args.name)
NoForeignOverwrite == PutOverExisting => RecordsRequested
OverwriteOnlyAfterCleanup ==
    PutOverExisting => (RecordsRequested \/ HasCall("helm_delete"))

\* C28: create issues a PUT for a requested identity whose remote resource
\* exists only when the config-map of the local release records that same
\* identity; after the cleanup of a stale release it does not PUT over a
\* resource of the requested identity that belongs to another cluster.
C28_NoOverwriteOfForeignResource == [][NoForeignOverwrite]_vars

\* What holds: a PUT over an existing resource that the config-map does not
\* record happens only after the agents of a stale release were removed.
C28_OverwriteOnlyAfterCleanup == [][OverwriteOnlyAfterCleanup]_vars

(***************************************************************************)
(* C29                                                                     *)
(***************************************************************************)
ListEnded ==
    fnIn.entry = "list_cluster_user_credentials" /\ fnOut.pc = "done"
CredentialsRequested ==
    \E i \in 1..Len(fnOut.calls) :
        fnOut.calls[i][1] = "list_cluster_user_credentials"
RequestedWith(token) ==
    \E i \in 1..Len(fnOut.calls) :
        /\ fnOut.calls[i][1] = "list_cluster_user_credentials"
        /\ \E k \in 2..Len(fnOut.calls[i]) : fnOut.calls[i][k] = token
ClusterFetched ==
    \E i \in 1..Len(fnOut.calls) : fnOut.calls[i][1] = "get"
CompleteProfile ==
    /\ fnIn.cluster.found
    /\ ~fnIn.cluster.aad_profile.isNone
    /\ fnIn.cluster.aad_profile.tenant_id # ""
    /\ fnIn.cluster.aad_profile.client_app_id # ""
    /\ fnIn.cluster.aad_profile.server_app_id # ""

\* C29: list_cluster_user_credentials without a token requests credentials
\* only for a cluster whose AAD profile exists with its three ids
\* non-empty, and otherwise ends with an error, no request and no temp or
\* kubeconfig file made; with a token it requests credentials with that
\* token and does not fetch the cluster.
C29_RequestsCredentials ==
    ListEnded =>
        IF fnIn.token = NoneSetting
        THEN /\ CredentialsRequested => CompleteProfile
             /\ ~CompleteProfile =>
                   /\ fnOut.result \notin {"ok", "none"}
                   /\ ~CredentialsRequested
                   /\ fnOut.temps = {} /\ ~fnOut.printed
        ELSE RequestedWith(fnIn.token) /\ ~ClusterFetched

\* What the code does: the call never binds, so the operation always ends
\* with 'Failed to get credentials' or an earlier error, no request is sent
\* and nothing is merged or printed.
C29_NeverRequests ==
    ListEnded =>
        /\ ~CredentialsRequested
        /\ fnOut.result \in {"GetFault", "NeedsToken", "CredentialsFault"}
        /\ ~fnOut.printed /\ fnOut.temps = {}

\* A token was given and the operation ended with 'Failed to get
\* credentials' without a request.
C29_TokenCallFails ==
    /\ ListEnded /\ fnIn.token # NoneSetting
    /\ fnOut.result = "CredentialsFault" /\ ~CredentialsRequested

(***************************************************************************)
(* C30                                                                     *)
(***************************************************************************)
RequestedPresent == remote[Key(args.rg, args.name)].present
\* A successful GET of the requested identity before call i.
FoundBefore(i) ==
    \E j \in 1..(i - 1) :
        /\ calls[j].kind = "GET" /\ calls[j].ok
        /\ Key(calls[j].rg, calls[j].name) = Key(args.rg, args.name)

\* C30: update_agents issues no PUT, no DELETE and no resource-group
\* creation; it runs helm upgrade only when the resource of the requested
\* identity exists and was read; and when the resource does not exist it
\* ends with 'resource does not exist' once the check was made, and without
\* a helm upgrade in any case.
C30_UpdateOnlyReadsRemote ==
    op = "update" =>
        /\ \A i \in 1..Len(calls) :
              calls[i].kind \notin {"PUT", "DELETE", "rg_create"}
        /\ \A i \in CallsOf("helm_upgrade") :
              RequestedPresent /\ FoundBefore(i)
        /\ ~RequestedPresent =>
              /\ ~HasCall("helm_upgrade")
              /\ pc \notin {"u_get", "u_chart", "u_upgrade"}
              /\ (pc = "done" /\ lv.requested_exists # "unset") =>
                    result = "ResourceDoesNotExist"

\* update_agents ended with 'resource does not exist' after one GET.
C30_Witness ==
    /\ op = "update" /\ pc = "done" /\ result = "ResourceDoesNotExist"
    /\ ~RequestedPresent
    /\ Cardinality(CallsOf("GET")) = 1

\* update_agents upgraded the agents of an existing resource.
C30_WitnessUpgrade ==
    /\ op = "update" /\ pc = "done" /\ result = "ok"
    /\ HasCall("helm_upgrade") /\ RequestedPresent

====
